---- MODULE Spec2Model ----
(***************************************************************************)
(* Offline-first persistence and synchronisation layer of the inspection   *)
(* app: the local collections 'sp_sites' and 'sp_inspections', the remote  *)
(* tables 'sites' and 'inspections', and the asynchronous operations of    *)
(* storageService that move records between them.                          *)
(*                                                                         *)
(* A JSON object is a TLA+ record; a key that JSON.stringify omits         *)
(* (undefined) is a field the record does not have.  All objects are built *)
(* by the same code paths, so two objects with equal keys and values have  *)
(* the same key order and JSON.stringify agrees on them exactly when the   *)
(* records are equal.                                                      *)
(*                                                                         *)
(* Every await on a remote call is a suspension point: the operation       *)
(* parks in `tasks` with its request, the remote serves it in a step of    *)
(* its own, and the operation resumes in a later step.                     *)
(***************************************************************************)
EXTENDS Integers, Sequences, FiniteSets, TLC

VARIABLES
    sites,        \* localStorage['sp_sites'], parsed
    inspections,  \* localStorage['sp_inspections'], parsed
    remoteSites,  \* rows of the remote table 'sites'
    remoteLogs,   \* rows of the remote table 'inspections'
    online,       \* navigator.onLine
    configured,   \* checkSupabaseConfig() && supabase
    tasks,        \* the asynchronous operations in flight, by slot
    last,         \* history: the step that produced the current state
    photos,       \* IndexedDB store 'photos': its entries [id, data]
    bucket,       \* paths of the objects in the remote bucket 'reports'
    summary,      \* the InspectionSummary component: its state and what it has shown
    deleted       \* history: the ids handed to deleteSite and not saved since

localVars  == <<sites, inspections>>
remoteVars == <<remoteSites, remoteLogs>>
cacheVars  == <<photos, bucket>>
vars == <<sites, inspections, remoteSites, remoteLogs, online, configured, tasks, last,
          photos, bucket, summary, deleted>>

----------------------------------------------------------------------------
\* Bounds

MaxTasks == 1           \* operations suspended on a remote call at once
MaxSavers == 2          \* the same, where only saves and deletes of sites run
MaxConfirms == 2        \* calls of onConfirm that the buttons of one screen start

Slots == 1..MaxTasks
SaverSlots == 1..MaxSavers
AllSlots == Slots \cup SaverSlots

\* The sites the user saves: two versions of one site and a second site.
\* Where several saves are in flight at once, the two versions of one site.
SiteNames   == {"A", "B"}
SaverInputs == [id : {"s1"}, name : SiteNames]
SiteInputs  == SaverInputs \cup [id : {"s2"}, name : {"A"}]
SiteIds     == {site.id : site \in SiteInputs}

\* The demo site that earlier versions seeded and uploaded; getSites drops
\* it, so the user never edits it.
DemoSiteId == "site-1"
DemoSite   == [id |-> DemoSiteId, name |-> "D"]

None == [none |-> TRUE]

\* The InspectionSummary component as mounted: isProcessing, the toast
\* shown last, whether onConfirm has been called, resolvedAnswers, and the
\* slot of the upload the finish handler awaits (0: none).
Mounted ==
    [isProcessing |-> FALSE, toast |-> "", confirmed |-> FALSE,
     resolvedAnswers |-> <<>>, awaits |-> 0, downloading |-> FALSE, confirms |-> 0]
Idle == [op |-> "idle"]

----------------------------------------------------------------------------
\* Sequences and JSON sizes

Range(list) == {list[i] : i \in 1..Len(list)}

Ids(list) == {list[i].id : i \in 1..Len(list)}

\* All orderings of a finite set of rows: the order of a select without a
\* deterministic ORDER BY is the backend's choice.
Orderings(S) ==
    {s \in [1..Cardinality(S) -> S] : \A i, j \in 1..Cardinality(S) : s[i] = s[j] => i = j}

\* Array.prototype.findIndex by id; 0 stands for -1.
FindIndex(list, id) ==
    IF \E i \in 1..Len(list) : list[i].id = id
    THEN CHOOSE i \in 1..Len(list) :
            /\ list[i].id = id
            /\ \A j \in 1..(i - 1) : list[j].id # id
    ELSE 0

\* Length of the JSON text of a key/value pair that may be absent.
SyncedLen(r) ==
    IF "synced" \in DOMAIN r THEN (IF r.synced THEN 14 ELSE 15) ELSE 0

IdLen(id) == Len(id)

SiteLen(s) == 21 + IdLen(s.id) + Len(s.name) + SyncedLen(s)

RECURSIVE SitesLenSum(_)
SitesLenSum(list) ==
    IF list = <<>> THEN 0 ELSE SiteLen(Head(list)) + SitesLenSum(Tail(list))

\* Length of JSON.stringify(list): brackets, elements and separating commas.
SitesSize(list) == 2 + SitesLenSum(list) + (IF Len(list) > 1 THEN Len(list) - 1 ELSE 0)

\* localStorage.setItem(key, new) where the key holds old: a value that does
\* not grow always fits; one that grows throws QuotaExceededError when the
\* origin's storage is full.  The set of possible outcomes (TRUE: stored).
SetItemOutcomes(oldSize, newSize) ==
    IF newSize > oldSize THEN {TRUE, FALSE} ELSE {TRUE}

----------------------------------------------------------------------------
\* Sites: pure parts

\* getSites: the persisted list without the demo site 'site-1'.
getSites(raw) == SelectSeq(raw, LAMBDA s : s.id # DemoSiteId)

\* getSites writes the list back when it removed the demo site.
getSitesWrites(raw) == \E i \in 1..Len(raw) : raw[i].id = DemoSiteId

\* An upsert that always appends: what C9_UpsertWhenStored must reject.
UpsertAppend(list, rec) == Append(list, rec)

\* saveSite / saveInspection: replace in place or append.
Upsert(list, rec) ==
    LET index == FindIndex(list, rec.id)
    IN  IF index > 0 THEN [list EXCEPT ![index] = rec] ELSE Append(list, rec)

\* site.synced = false
Unsynced(rec) == ("synced" :> FALSE) @@ rec

\* freshSites[freshIndex].synced = true, when the record is still there.
MarkSynced(list, id) ==
    LET index == FindIndex(list, id)
    IN  IF index > 0 THEN [list EXCEPT ![index] = ("synced" :> TRUE) @@ list[index]] ELSE list

\* Map.set over a list of records in order: a new key is appended, an
\* existing key keeps its position and takes the new value.
RECURSIVE MapSetAll(_, _)
MapSetAll(map, list) ==
    IF list = <<>> THEN map ELSE MapSetAll(Upsert(map, Head(list)), Tail(list))

\* remoteSite.synced = true / { ...row.data, synced: true }
Synced(rec) == ("synced" :> TRUE) @@ rec

\* A merge in which a local record always keeps its slot: what
\* C4_RemoteWinsUnlessPending must reject.
RECURSIVE DownloadMergeKeepLocal(_, _)
DownloadMergeKeepLocal(acc, rows) ==
    IF rows = <<>> THEN acc
    ELSE IF FindIndex(acc.map, Head(rows).data.id) = 0
         THEN DownloadMergeKeepLocal([map |-> Upsert(acc.map, Synced(Head(rows).data)),
                                      hasChanges |-> TRUE], Tail(rows))
         ELSE DownloadMergeKeepLocal(acc, Tail(rows))

\* downloadLatestSites, the forEach over the fetched rows: the remote value
\* takes the slot when there is no local value or its JSON text differs.
RECURSIVE DownloadMerge(_, _)
DownloadMerge(acc, rows) ==
    IF rows = <<>> THEN acc
    ELSE LET remoteSite == Head(rows).data
             index == FindIndex(acc.map, remoteSite.id)
         IN  IF index = 0 \/ acc.map[index] # remoteSite
             THEN DownloadMerge([map |-> Upsert(acc.map, Synced(remoteSite)),
                                 hasChanges |-> TRUE], Tail(rows))
             ELSE DownloadMerge(acc, Tail(rows))

\* A merge that takes the cloud rows alone and forgets the pending local
\* records: what C2_SyncCycleKeepsLocalOnly must reject.
InitialLoadSitesCloudOnly(localSites, cloudSites) ==
    MapSetAll(<<>>, [i \in 1..Len(cloudSites) |-> Synced(cloudSites[i].data)])

\* performInitialLoad, sites: the cloud rows marked synced, overridden by
\* the local records that are not synced.
InitialLoadSites(localSites, cloudSites) ==
    LET pendingSites == SelectSeq(localSites, LAMBDA s : ~s.synced)
        formattedCloudSites == [i \in 1..Len(cloudSites) |-> Synced(cloudSites[i].data)]
    IN  MapSetAll(MapSetAll(<<>>, formattedCloudSites), pendingSites)

----------------------------------------------------------------------------
\* Inspection logs: pure parts

LogNames == {"A", "B"}

LocalPhoto  == "local::k1"
RemotePhoto == "https://cdn/reports/photos/p1.jpg"
ReportUrl   == "https://cdn/reports/report.pdf"
Null        == "null"

\* The answers of a log whose photo is in the local cache, and of one whose
\* photo has been uploaded.
AnswersLocal  == <<[pointId |-> "p1", photoUrl |-> LocalPhoto]>>
AnswersRemote == <<[pointId |-> "p1", photoUrl |-> RemotePhoto]>>

\* The logs the user saves, the logs other devices upload, and the logs
\* saved where the sync cycle of the earlier revision runs.
LogInputs      == [id : {"l1"}, siteName : LogNames, answers : {AnswersLocal}]
StoreLogInputs == LogInputs \cup [id : {"l2"}, siteName : {"A"}, answers : {AnswersLocal}]
OtherLogInputs == [id : {"l1"}, siteName : {"B"}, answers : {AnswersLocal}]
OldLogInputs   == [id : {"l1"}, siteName : {"A"}, answers : {AnswersLocal}]
SyncOtherLogs  == [id : {"l2"}, siteName : {"A"}, answers : {AnswersLocal}]
SyncOtherSites == [id : {"s2"}, name : {"A"}]
SyncSiteInputs == [id : {"s1"}, name : {"A"}]
QuotaLogInputs == [id : {"l1", "l2"}, siteName : {"A"}, answers : {AnswersLocal}]
ReconOtherSites == [id : {"s1"}, name : {"B"}] \cup SyncOtherSites

WithoutKey(obj, key) == [k \in (DOMAIN obj) \ {key} |-> obj[k]]

\* stripHeavyData: every answer's photoUrl becomes undefined, a key that
\* JSON.stringify omits.
stripHeavyData(log) ==
    [log EXCEPT !.answers = [i \in 1..Len(log.answers) |-> WithoutKey(log.answers[i], "photoUrl")]]

\* getInspections on a persisted array.
getInspections(raw) == raw

AnswerLen(a) ==
    14 + Len(a.pointId) + (IF "photoUrl" \in DOMAIN a THEN 14 + Len(a.photoUrl) ELSE 0)

RECURSIVE AnswersLenSum(_)
AnswersLenSum(list) ==
    IF list = <<>> THEN 0 ELSE AnswerLen(Head(list)) + AnswersLenSum(Tail(list))

LogLen(l) ==
    38 + IdLen(l.id) + Len(l.siteName) + AnswersLenSum(l.answers)
       + (IF "pdfUrl" \in DOMAIN l THEN 12 + Len(l.pdfUrl) ELSE 0) + SyncedLen(l)

RECURSIVE LogsLenSum(_)
LogsLenSum(list) ==
    IF list = <<>> THEN 0 ELSE LogLen(Head(list)) + LogsLenSum(Tail(list))

LogsSize(list) == 2 + LogsLenSum(list) + (IF Len(list) > 1 THEN Len(list) - 1 ELSE 0)

\* A fallback that strips every log: what C13_RetryStripsOnlySynced must
\* reject.
StripAll(list) == [i \in 1..Len(list) |-> stripHeavyData(list[i])]

\* saveInspection's fallback list: synced logs lose their photo references.
StripSynced(list) ==
    [i \in 1..Len(list) |-> IF list[i].synced THEN stripHeavyData(list[i]) ELSE list[i]]

\* The second setItem of saveInspection, after the first threw for lack of
\* room: it fits when the list is no larger than what is stored, cannot fit
\* when it is no smaller than the list that just failed.
RetryOutcomes(oldSize, failedSize, newSize) ==
    IF newSize <= oldSize THEN {TRUE}
    ELSE IF newSize >= failedSize THEN {FALSE}
    ELSE {TRUE, FALSE}

\* row.pdf_url || row.data.pdfUrl; Null stands for undefined as well.
RowPdfUrl(row) ==
    IF row.pdf_url # Null THEN row.pdf_url
    ELSE IF "pdfUrl" \in DOMAIN row.data THEN row.data.pdfUrl
    ELSE Null

\* { ...data, pdfUrl: url }: an undefined pdfUrl is a key JSON.stringify omits.
WithPdfUrl(log, url) ==
    IF url = Null THEN WithoutKey(log, "pdfUrl") ELSE ("pdfUrl" :> url) @@ log

\* performInitialLoad, one cloud row as it is stored locally.
FormatCloudLog(row) == Synced(WithPdfUrl(stripHeavyData(row.data), RowPdfUrl(row)))

\* performInitialLoad, inspections: the formatted cloud rows, overridden by
\* the local logs that are not synced.
InitialLoadLogs(localLogs, cloudLogs) ==
    LET pendingLogs == SelectSeq(localLogs, LAMBDA l : ~l.synced)
        formattedCloudLogs == [i \in 1..Len(cloudLogs) |-> FormatCloudLog(cloudLogs[i])]
    IN  MapSetAll(MapSetAll(<<>>, formattedCloudLogs), pendingLogs)

\* The row of a service whose table has no pdf_url column filled: what
\* C36_RowAndPayloadAgreeOnPdfUrl must reject.
LogRowNoColumn(log) == [id |-> log.id, pdf_url |-> Null, data |-> log]

\* The row uploadInspectionToSupabase sends for a log.
LogRow(log) ==
    [id |-> log.id,
     pdf_url |-> IF "pdfUrl" \in DOMAIN log THEN log.pdfUrl ELSE Null,
     data |-> log]

----------------------------------------------------------------------------
\* Operations in flight, requests and history

\* An operation suspended on a remote call.  owed: the collections it has
\* written so far without raising their notification afterwards.
Task(op, pc, arg, req, owed) ==
    [op |-> op, pc |-> pc, arg |-> arg, req |-> req, resp |-> None, owed |-> owed]

\* The history of deletions: ids, the ids of the stored sites that deleteSite
\* has removed and saveSite has not stored again; before[t], those of them
\* that were already removed when the reconciliation in slot t was called.
\* It is recorded only where a specification starts it at NoDeletions;
\* elsewhere it stays at NotRecorded.
NotRecorded == [recorded |-> FALSE]

Removed(d, siteId, list) ==
    IF d = NotRecorded \/ siteId \notin {list[i].id : i \in 1..Len(list)} THEN d
    ELSE [d EXCEPT !.ids = @ \cup {siteId}]

Restored(d, siteId) ==
    IF d = NotRecorded THEN d
    ELSE [ids |-> d.ids \ {siteId},
          before |-> [t \in DOMAIN d.before |-> d.before[t] \ {siteId}]]

Called(d, t) ==
    IF d = NotRecorded \/ t \notin DOMAIN d.before THEN d
    ELSE [d EXCEPT !.before[t] = d.ids]

Request(kind, payload) == [kind |-> kind, payload |-> payload]

Resumable(t, op, pc) ==
    /\ tasks[t] # Idle
    /\ tasks[t].op = op
    /\ tasks[t].pc = pc
    /\ tasks[t].resp # None

\* The collections written and not notified after the writes (W_) and
\* notifications (N_) of a trace, starting from those owed before it.
RECURSIVE Owed(_, _)
Owed(owed, trace) ==
    IF trace = <<>> THEN owed
    ELSE Owed(CASE Head(trace) = "W_sites" -> owed \cup {"sites"}
                [] Head(trace) = "W_insp"  -> owed \cup {"insp"}
                [] Head(trace) = "N_sites" -> owed \ {"sites"}
                [] Head(trace) = "N_insp"  -> owed \ {"insp"},
              Tail(trace))

\* The step just taken: the operation, the slot it is parked in or resumed
\* from (0: none), its argument, whether its collection write was stored,
\* the writes and notifications of the step in order, what the operation
\* owes after it, and whether the operation has returned.
Step(op, t, arg, stored, trace, owed, done) ==
    [op |-> op, t |-> t, arg |-> arg, stored |-> stored, trace |-> trace,
     owed |-> Owed(owed, trace), done |-> done, note |-> "", fetched |-> {}]

EnvStep == Step("env", 0, None, TRUE, <<>>, {}, FALSE)

\* The write getSites performs when it drops the demo site.
CleanupTrace(raw) == IF getSitesWrites(raw) THEN <<"W_sites">> ELSE <<>>

Connected == configured /\ online

\* The slot an operation is parked in, when it suspends.
Park(t, suspends, task) == IF suspends THEN [tasks EXCEPT ![t] = task] ELSE tasks

SlotOf(t, suspends) == IF suspends THEN t ELSE 0

----------------------------------------------------------------------------
\* The remote backend and the environment

RowsWithout(rows, id) == {r \in rows : r.id # id}

\* An upsert that names no pdf_url column leaves the column of an existing
\* row as it is, and null in a new row.
KeptPdfUrl(id) ==
    IF \E r \in remoteLogs : r.id = id
    THEN (CHOOSE r \in remoteLogs : r.id = id).pdf_url
    ELSE Null

\* The effect of a request on the remote tables.
RemoteSitesAfter(req) ==
    CASE req.kind = "upsertSite" -> RowsWithout(remoteSites, req.payload.id) \cup {req.payload}
      [] req.kind = "deleteSite" -> RowsWithout(remoteSites, req.payload)
      [] OTHER -> remoteSites

RemoteLogsAfter(req) ==
    CASE req.kind = "upsertLog" -> RowsWithout(remoteLogs, req.payload.id) \cup {req.payload}
      [] req.kind = "upsertLogData" ->
            RowsWithout(remoteLogs, req.payload.id)
              \cup {[id |-> req.payload.id, pdf_url |-> KeptPdfUrl(req.payload.id),
                     data |-> req.payload.data]}
      [] OTHER -> remoteLogs

\* The effect of an upload on the bucket (upsert: true).
BucketAfter(req) ==
    IF req.kind = "uploadBlob" THEN bucket \cup {req.payload} ELSE bucket

\* The rows a select returns, in each order the backend may choose.
RemoteAnswers(req) ==
    CASE req.kind = "selectSites" -> Orderings(remoteSites)
      [] req.kind = "selectLogs" -> Orderings(remoteLogs)
      [] OTHER -> {<<>>}

Pending(t) == tasks[t] # Idle /\ tasks[t].resp = None

\* The backend serves the request and the response reaches the client.
RemoteOk(t) ==
    /\ Pending(t)
    /\ online
    /\ \E data \in RemoteAnswers(tasks[t].req) :
          tasks' = [tasks EXCEPT ![t].resp = [ok |-> TRUE, thrown |-> FALSE, data |-> data]]
    /\ remoteSites' = RemoteSitesAfter(tasks[t].req)
    /\ remoteLogs' = RemoteLogsAfter(tasks[t].req)
    /\ last' = EnvStep
    /\ bucket' = BucketAfter(tasks[t].req)
    /\ UNCHANGED <<localVars, online, configured, photos, summary, deleted>>

\* The request fails: the client gets { error } back, or the call throws.
\* Only performInitialLoad tells the two apart.
RemoteError(t) ==
    /\ Pending(t)
    /\ \E thrown \in (IF tasks[t].op = "performInitialLoad" THEN BOOLEAN ELSE {FALSE}) :
          tasks' = [tasks EXCEPT ![t].resp = [ok |-> FALSE, thrown |-> thrown, data |-> <<>>]]
    /\ last' = EnvStep
    /\ UNCHANGED <<localVars, remoteVars, online, configured, cacheVars, summary, deleted>>

\* The backend applies a write but the response is lost on the way back.
RemoteLost(t) ==
    /\ Pending(t)
    /\ online
    /\ tasks[t].req.kind \in {"upsertSite", "deleteSite", "upsertLog", "upsertLogData", "uploadBlob"}
    /\ tasks' = [tasks EXCEPT ![t].resp = [ok |-> FALSE, thrown |-> FALSE, data |-> <<>>]]
    /\ remoteSites' = RemoteSitesAfter(tasks[t].req)
    /\ remoteLogs' = RemoteLogsAfter(tasks[t].req)
    /\ last' = EnvStep
    /\ bucket' = BucketAfter(tasks[t].req)
    /\ UNCHANGED <<localVars, online, configured, photos, summary, deleted>>

GoOffline ==
    /\ online
    /\ online' = FALSE
    /\ last' = EnvStep
    /\ UNCHANGED <<localVars, remoteVars, configured, tasks, cacheVars, summary, deleted>>

GoOnline ==
    /\ ~online
    /\ online' = TRUE
    /\ last' = EnvStep
    /\ UNCHANGED <<localVars, remoteVars, configured, tasks, cacheVars, summary, deleted>>

\* Another device running the same application uploads a site: its saveSite
\* sends the site with synced = false.
OtherDeviceSavesSite(site) ==
    /\ configured
    /\ remoteSites' = RowsWithout(remoteSites, site.id) \cup {[id |-> site.id, data |-> Unsynced(site)]}
    /\ remoteSites' # remoteSites
    /\ last' = EnvStep
    /\ UNCHANGED <<localVars, remoteLogs, online, configured, tasks, cacheVars, summary, deleted>>

\* Another device deletes a site: its deleteSite removes the remote row.
OtherDeviceDeletesSite(siteId) ==
    /\ configured
    /\ remoteSites' = RowsWithout(remoteSites, siteId)
    /\ remoteSites' # remoteSites
    /\ last' = EnvStep
    /\ UNCHANGED <<localVars, remoteLogs, online, configured, tasks, cacheVars, summary, deleted>>

----------------------------------------------------------------------------
\* Sites: operations

\* saveSite up to its await: the local upsert, then the remote upsert is
\* issued when the remote is configured and the device online.
saveSite(t, site) ==
    /\ Connected => tasks[t] = Idle
    /\ LET list == getSites(sites)
           rec == Unsynced(site)
           new == Upsert(list, rec)
       IN  \E stored \in SetItemOutcomes(SitesSize(list), SitesSize(new)) :
             LET trace == CleanupTrace(sites)
                            \o (IF stored THEN <<"W_sites", "N_sites">> ELSE <<>>)
             IN  /\ sites' = IF stored THEN new ELSE list
                 /\ tasks' = Park(t, Connected,
                                  Task("saveSite", "await", rec,
                                       Request("upsertSite", [id |-> rec.id, data |-> rec]),
                                       Owed({}, trace)))
                 /\ last' = Step("saveSite", SlotOf(t, Connected), rec, stored, trace, {},
                                 ~Connected)
    /\ UNCHANGED <<inspections, remoteVars, online, configured, cacheVars, summary>>
    /\ deleted' = Restored(deleted, site.id)

\* saveSite after its await: on success the record now stored under the id
\* is marked synced.
saveSiteResume(t) ==
    /\ Resumable(t, "saveSite", "await")
    /\ LET fresh == getSites(sites)
           found == FindIndex(fresh, tasks[t].arg.id) > 0
           writes == tasks[t].resp.ok /\ found
           trace == (IF tasks[t].resp.ok THEN CleanupTrace(sites) ELSE <<>>)
                      \o (IF writes THEN <<"W_sites", "N_sites">> ELSE <<>>)
       IN  /\ sites' = IF writes THEN MarkSynced(fresh, tasks[t].arg.id)
                       ELSE IF tasks[t].resp.ok THEN fresh ELSE sites
           /\ last' = Step("saveSiteResume", t, tasks[t].arg, writes, trace,
                           tasks[t].owed, TRUE)
    /\ tasks' = [tasks EXCEPT ![t] = Idle]
    /\ UNCHANGED <<inspections, remoteVars, online, configured, cacheVars, summary, deleted>>

\* A filter that removes nothing: what C11_DeleteRemovesOnlyThatId must reject.
RemoveNothing(list, id) == list

\* sites.filter(s => s.id !== siteId)
RemoveById(list, id) == SelectSeq(list, LAMBDA s : s.id # id)

\* A deleteSite that also discards the stored inspections: what
\* C38_CollectionsAndCacheIndependent must reject.
deleteSiteAndLogs(t, siteId) ==
    /\ Connected => tasks[t] = Idle
    /\ sites' = RemoveById(getSites(sites), siteId)
    /\ inspections' = <<>>
    /\ tasks' = Park(t, Connected,
                     Task("deleteSite", "await", siteId, Request("deleteSite", siteId), {}))
    /\ last' = Step("deleteSite", SlotOf(t, Connected), siteId, TRUE, <<>>, {}, ~Connected)
    /\ UNCHANGED <<remoteVars, online, configured, cacheVars, summary, deleted>>

\* deleteSite up to its await.
deleteSite(t, siteId) ==
    /\ Connected => tasks[t] = Idle
    /\ LET trace == CleanupTrace(sites) \o <<"W_sites", "N_sites">>
       IN  /\ sites' = RemoveById(getSites(sites), siteId)
           /\ tasks' = Park(t, Connected,
                            Task("deleteSite", "await", siteId,
                                 Request("deleteSite", siteId), Owed({}, trace)))
           /\ last' = [Step("deleteSite", SlotOf(t, Connected), siteId, TRUE, trace, {},
                            ~Connected)
                         EXCEPT !.note = IF siteId \in Ids(sites) THEN "removed" ELSE "absent"]
    /\ UNCHANGED <<inspections, remoteVars, online, configured, cacheVars, summary>>
    /\ deleted' = Removed(deleted, siteId, sites)

\* deleteSite after its await: the result of the remote delete is ignored.
deleteSiteResume(t) ==
    /\ Resumable(t, "deleteSite", "await")
    /\ tasks' = [tasks EXCEPT ![t] = Idle]
    /\ last' = Step("deleteSiteResume", t, tasks[t].arg, TRUE, <<>>, tasks[t].owed, TRUE)
    /\ UNCHANGED <<localVars, remoteVars, online, configured, cacheVars, summary, deleted>>

\* downloadLatestSites up to its await: nothing happens unless connected.
downloadLatestSites(t) ==
    /\ Connected => tasks[t] = Idle
    /\ tasks' = Park(t, Connected,
                     Task("downloadLatestSites", "await", None,
                          Request("selectSites", None), {}))
    /\ last' = Step("downloadLatestSites", SlotOf(t, Connected), None, TRUE, <<>>, {},
                    ~Connected)
    /\ UNCHANGED <<localVars, remoteVars, online, configured, cacheVars, summary>>
    /\ deleted' = Called(deleted, SlotOf(t, Connected))

\* What downloadLatestSites does with the fetched rows: the merged list, and
\* whether any slot changed.
DownloadResult(raw, rows) ==
    DownloadMerge([map |-> MapSetAll(<<>>, getSites(raw)), hasChanges |-> FALSE], rows)

\* downloadLatestSites after its await: merge, and on a change one write and
\* one notification.  A failed select or a failed write is caught and logged.
downloadLatestSitesResume(t) ==
    /\ Resumable(t, "downloadLatestSites", "await")
    /\ LET resp == tasks[t].resp
           local == getSites(sites)
           result == DownloadResult(sites, resp.data)
       IN  IF resp.ok
           THEN \E stored \in SetItemOutcomes(SitesSize(local), SitesSize(result.map)) :
                  LET writes == result.hasChanges /\ stored
                      trace == CleanupTrace(sites)
                                 \o (IF writes THEN <<"W_sites", "N_sites">> ELSE <<>>)
                  IN  /\ sites' = IF writes THEN result.map ELSE local
                      /\ last' = [Step("downloadLatestSitesResume", t, None, writes,
                                       trace, {}, TRUE)
                                    EXCEPT !.fetched = Ids(resp.data)]
           ELSE /\ sites' = sites
                /\ last' = [Step("downloadLatestSitesResume", t, None, FALSE, <<>>, {}, TRUE)
                              EXCEPT !.note = "failed"]
    /\ tasks' = [tasks EXCEPT ![t] = Idle]
    /\ UNCHANGED <<inspections, remoteVars, online, configured, cacheVars, summary, deleted>>

----------------------------------------------------------------------------
\* Both collections: performInitialLoad

\* performInitialLoad up to its first await: nothing happens unless connected.
performInitialLoad(t) ==
    /\ Connected => tasks[t] = Idle
    /\ tasks' = Park(t, Connected,
                     Task("performInitialLoad", "sites", None,
                          Request("selectSites", None), {}))
    /\ last' = Step("performInitialLoad", SlotOf(t, Connected), None, TRUE, <<>>, {},
                    ~Connected)
    /\ UNCHANGED <<localVars, remoteVars, online, configured, cacheVars, summary>>
    /\ deleted' = Called(deleted, SlotOf(t, Connected))

\* performInitialLoad between its two awaits: the merged sites are written
\* (no notification yet) and the inspections are requested.  A select that
\* throws, or a write that throws, ends the operation in its catch block.
performInitialLoadSites(t) ==
    /\ Resumable(t, "performInitialLoad", "sites")
    /\ LET resp == tasks[t].resp
           local == getSites(sites)
           merged == InitialLoadSites(local, resp.data)
           next(owed) == [tasks EXCEPT ![t] =
                            Task("performInitialLoad", "logs", None,
                                 Request("selectLogs", None), owed)]
       IN  IF resp.ok
           THEN \E stored \in SetItemOutcomes(SitesSize(local), SitesSize(merged)) :
                  LET trace == CleanupTrace(sites) \o (IF stored THEN <<"W_sites">> ELSE <<>>)
                  IN  /\ sites' = IF stored THEN merged ELSE local
                      /\ tasks' = IF stored THEN next(Owed({}, trace))
                                  ELSE [tasks EXCEPT ![t] = Idle]
                      /\ last' = [Step("performInitialLoadSites", t, None, stored,
                                       trace, {}, ~stored)
                                    EXCEPT !.fetched = Ids(resp.data)]
           ELSE /\ sites' = sites
                /\ tasks' = IF resp.thrown THEN [tasks EXCEPT ![t] = Idle] ELSE next({})
                /\ last' = [Step("performInitialLoadSites", t, None, FALSE, <<>>, {},
                                 resp.thrown)
                              EXCEPT !.note = "failed"]
    /\ UNCHANGED <<inspections, remoteVars, online, configured, cacheVars, summary, deleted>>

\* performInitialLoad after its second await: the merged inspections are
\* written, then both notifications are raised.
performInitialLoadLogs(t) ==
    /\ Resumable(t, "performInitialLoad", "logs")
    /\ LET resp == tasks[t].resp
           local == getInspections(inspections)
           merged == InitialLoadLogs(local, resp.data)
           events == <<"N_sites", "N_insp">>
       IN  IF resp.ok
           THEN \E stored \in SetItemOutcomes(LogsSize(local), LogsSize(merged)) :
                  LET trace == IF stored THEN <<"W_insp">> \o events ELSE <<>>
                  IN  /\ inspections' = IF stored THEN merged ELSE local
                      /\ last' = [Step("performInitialLoadLogs", t, None, stored,
                                       trace, tasks[t].owed, TRUE)
                                    EXCEPT !.fetched = Ids(resp.data)]
           ELSE /\ inspections' = inspections
                /\ last' = [Step("performInitialLoadLogs", t, None, FALSE,
                                 IF resp.thrown THEN <<>> ELSE events, tasks[t].owed, TRUE)
                              EXCEPT !.note = "failed"]
    /\ tasks' = [tasks EXCEPT ![t] = Idle]
    /\ UNCHANGED <<sites, remoteVars, online, configured, cacheVars, summary, deleted>>

----------------------------------------------------------------------------
\* Inspection logs: operations

\* saveInspection: the local upsert; when the write throws for lack of room
\* the synced logs are stripped and the write is tried once more, and a
\* second failure rejects the call.  No notification, no remote call.
saveInspection(inspection) ==
    /\ LET old == getInspections(inspections)
           rec == Unsynced(inspection)
           new == Upsert(old, rec)
           stripped == StripSynced(new)
       IN  \E first \in SetItemOutcomes(LogsSize(old), LogsSize(new)) :
           \E second \in RetryOutcomes(LogsSize(old), LogsSize(new), LogsSize(stripped)) :
             /\ inspections' = IF first THEN new ELSE IF second THEN stripped ELSE old
             /\ last' = [Step("saveInspection", 0, rec, first \/ second,
                              IF first \/ second THEN <<"W_insp">> ELSE <<>>, {}, TRUE)
                           EXCEPT !.note = IF first THEN ""
                                           ELSE IF second THEN "retry" ELSE "rejected"]
    /\ UNCHANGED <<sites, remoteVars, online, configured, tasks, cacheVars, summary, deleted>>

\* uploadInspectionToSupabase up to its await: the row is sent whenever a
\* client exists; the caller passes a log it read from the store.
uploadInspectionToSupabase(t, log) ==
    /\ configured => tasks[t] = Idle
    /\ \E i \in 1..Len(inspections) : inspections[i] = log
    /\ tasks' = Park(t, configured,
                     Task("uploadInspectionToSupabase", "await", log,
                          Request("upsertLog", LogRow(log)), {}))
    /\ last' = Step("uploadInspectionToSupabase", SlotOf(t, configured), log, TRUE,
                    <<>>, {}, ~configured)
    /\ UNCHANGED <<localVars, remoteVars, online, configured, cacheVars, summary, deleted>>

\* uploadInspectionToSupabase after its await: an error is thrown to the
\* caller; on success the log now stored under the id is marked synced,
\* with no notification.
uploadInspectionToSupabaseResume(t) ==
    /\ Resumable(t, "uploadInspectionToSupabase", "await")
    /\ LET list == getInspections(inspections)
           found == FindIndex(list, tasks[t].arg.id) > 0
           writes == tasks[t].resp.ok /\ found
       IN  /\ inspections' = IF writes THEN MarkSynced(list, tasks[t].arg.id) ELSE inspections
           /\ last' = Step("uploadInspectionToSupabaseResume", t, tasks[t].arg, writes,
                           IF writes THEN <<"W_insp">> ELSE <<>>, {}, TRUE)
    /\ tasks' = [tasks EXCEPT ![t] = Idle]
    /\ UNCHANGED <<sites, remoteVars, online, configured, cacheVars, summary, deleted>>

\* Another device uploads a log: a draft sent by uploadInspectionToSupabase,
\* or a finalised log sent by uploadInspectionWithPDF, carrying the report's
\* URL, uploaded photos and synced = true.
OtherDeviceRows(log) ==
    { LogRow(Unsynced(log)),
      LogRow(Synced(WithPdfUrl([log EXCEPT !.answers = AnswersRemote], ReportUrl))) }

OtherDeviceSavesLog(row) ==
    /\ configured
    /\ remoteLogs' = RowsWithout(remoteLogs, row.id) \cup {row}
    /\ remoteLogs' # remoteLogs
    /\ last' = EnvStep
    /\ UNCHANGED <<localVars, remoteSites, online, configured, tasks, cacheVars, summary, deleted>>

----------------------------------------------------------------------------
\* The earlier revision of the service: saveInspection that uploads, and the
\* sync cycle

\* saveInspection up to its await: the local upsert (a write that throws
\* rejects the call), then the upload when connected.
saveInspectionOld(t, inspection) ==
    /\ Connected => tasks[t] = Idle
    /\ LET old == getInspections(inspections)
           rec == Unsynced(inspection)
           new == Upsert(old, rec)
       IN  \E stored \in SetItemOutcomes(LogsSize(old), LogsSize(new)) :
             LET trace == IF stored THEN <<"W_insp">> ELSE <<>>
                 uploads == stored /\ Connected
             IN  /\ inspections' = IF stored THEN new ELSE old
                 /\ tasks' = Park(t, uploads,
                                  Task("saveInspectionOld", "await", rec,
                                       Request("upsertLogData", [id |-> rec.id, data |-> rec]),
                                       Owed({}, trace)))
                 /\ last' = Step("saveInspectionOld", SlotOf(t, uploads), rec, stored,
                                 trace, {}, ~uploads)
    /\ UNCHANGED <<sites, remoteVars, online, configured, cacheVars, summary, deleted>>

\* saveInspection after its await: on success the log now stored under the
\* id is marked synced.
saveInspectionOldResume(t) ==
    /\ Resumable(t, "saveInspectionOld", "await")
    /\ LET fresh == getInspections(inspections)
           found == FindIndex(fresh, tasks[t].arg.id) > 0
           writes == tasks[t].resp.ok /\ found
       IN  /\ inspections' = IF writes THEN MarkSynced(fresh, tasks[t].arg.id) ELSE inspections
           /\ last' = Step("saveInspectionOldResume", t, tasks[t].arg, writes,
                           IF writes THEN <<"W_insp">> ELSE <<>>, tasks[t].owed, TRUE)
    /\ tasks' = [tasks EXCEPT ![t] = Idle]
    /\ UNCHANGED <<sites, remoteVars, online, configured, cacheVars, summary, deleted>>

\* A cycle that uploads every record: what C30_DownloadBeforeUploads must
\* reject.
PendingAll(list) == list

PendingOf(list) == SelectSeq(list, LAMBDA r : ~r.synced)

\* syncPendingData, step 3: the upload of the first pending site, or the end
\* of the cycle when none is pending.
UploadSitesFrom(pending, owed) ==
    IF pending = <<>> THEN Idle
    ELSE Task("syncPendingData", "sites", pending,
              Request("upsertSite", [id |-> Head(pending).id, data |-> Head(pending)]), owed)

\* syncPendingData, step 2: the upload of the first pending log, or step 3
\* over the sites as they are stored by then.
UploadLogsFrom(pending, sitesNow, owed) ==
    IF pending = <<>> THEN UploadSitesFrom(PendingOf(getSites(sitesNow)), owed)
    ELSE Task("syncPendingData", "logs", pending,
              Request("upsertLogData", [id |-> Head(pending).id, data |-> Head(pending)]), owed)

\* syncPendingData up to its first await: downloadLatestSites is called first.
syncPendingData(t) ==
    /\ Connected => tasks[t] = Idle
    /\ tasks' = Park(t, Connected,
                     Task("syncPendingData", "download", None,
                          Request("selectSites", None), {}))
    /\ last' = Step("syncPendingData", SlotOf(t, Connected), None, TRUE, <<>>, {},
                    ~Connected)
    /\ UNCHANGED <<localVars, remoteVars, online, configured, cacheVars, summary, deleted>>

\* syncPendingData when downloadLatestSites returns: the merge of the
\* download, then the list of pending logs is taken and the first uploaded.
syncPendingDataDownloaded(t) ==
    /\ Resumable(t, "syncPendingData", "download")
    /\ LET resp == tasks[t].resp
           local == getSites(sites)
           result == DownloadResult(sites, resp.data)
           pendingLogs == PendingOf(getInspections(inspections))
       IN  IF resp.ok
           THEN \E stored \in SetItemOutcomes(SitesSize(local), SitesSize(result.map)) :
                  LET writes == result.hasChanges /\ stored
                      trace == CleanupTrace(sites)
                                 \o (IF writes THEN <<"W_sites", "N_sites">> ELSE <<>>)
                      sitesNow == IF writes THEN result.map ELSE local
                      next == UploadLogsFrom(pendingLogs, sitesNow, Owed({}, trace))
                  IN  /\ sites' = sitesNow
                      /\ tasks' = [tasks EXCEPT ![t] = next]
                      /\ last' = [Step("syncPendingDataDownloaded", t, None, writes,
                                       trace, {}, next = Idle)
                                    EXCEPT !.fetched = Ids(resp.data)]
           ELSE LET cleans == pendingLogs = <<>>
                    trace == IF cleans THEN CleanupTrace(sites) ELSE <<>>
                    next == UploadLogsFrom(pendingLogs, sites, Owed({}, trace))
                IN  /\ sites' = IF cleans THEN local ELSE sites
                    /\ tasks' = [tasks EXCEPT ![t] = next]
                    /\ last' = [Step("syncPendingDataDownloaded", t, None, FALSE,
                                     trace, {}, next = Idle)
                                  EXCEPT !.note = "failed"]
    /\ UNCHANGED <<inspections, remoteVars, online, configured, cacheVars, summary, deleted>>

\* syncPendingData after the upload of a pending log: on success the log now
\* stored under the id is marked synced; then the next log, or the sites.
syncPendingDataLogUploaded(t) ==
    /\ Resumable(t, "syncPendingData", "logs")
    /\ LET log == Head(tasks[t].arg)
           rest == Tail(tasks[t].arg)
           currentList == getInspections(inspections)
           writes == tasks[t].resp.ok /\ FindIndex(currentList, log.id) > 0
           trace == (IF writes THEN <<"W_insp">> ELSE <<>>)
                      \o (IF rest = <<>> THEN CleanupTrace(sites) ELSE <<>>)
           next == UploadLogsFrom(rest, sites, Owed(tasks[t].owed, trace))
       IN  /\ inspections' = IF writes THEN MarkSynced(currentList, log.id) ELSE inspections
           /\ sites' = IF rest = <<>> THEN getSites(sites) ELSE sites
           /\ tasks' = [tasks EXCEPT ![t] = next]
           /\ last' = Step("syncPendingDataLogUploaded", t, log, writes, trace,
                           tasks[t].owed, next = Idle)
    /\ UNCHANGED <<remoteVars, online, configured, cacheVars, summary, deleted>>

\* syncPendingData after the upload of a pending site: on success the site
\* now stored under the id is marked synced and the notification raised.
syncPendingDataSiteUploaded(t) ==
    /\ Resumable(t, "syncPendingData", "sites")
    /\ LET site == Head(tasks[t].arg)
           rest == Tail(tasks[t].arg)
           currentSites == getSites(sites)
           writes == tasks[t].resp.ok /\ FindIndex(currentSites, site.id) > 0
           trace == (IF tasks[t].resp.ok THEN CleanupTrace(sites) ELSE <<>>)
                      \o (IF writes THEN <<"W_sites", "N_sites">> ELSE <<>>)
           next == UploadSitesFrom(rest, Owed(tasks[t].owed, trace))
       IN  /\ sites' = IF writes THEN MarkSynced(currentSites, site.id)
                       ELSE IF tasks[t].resp.ok THEN currentSites ELSE sites
           /\ tasks' = [tasks EXCEPT ![t] = next]
           /\ last' = Step("syncPendingDataSiteUploaded", t, site, writes, trace,
                           tasks[t].owed, next = Idle)
    /\ UNCHANGED <<inspections, remoteVars, online, configured, cacheVars, summary, deleted>>

----------------------------------------------------------------------------
\* Reading a collection from whatever text its key holds

\* What localStorage.getItem and JSON.parse can yield: no item, a text that
\* does not parse, JSON null, a scalar, an object, an array of records.
Payload(kind, value) == [kind |-> kind, value |-> value]

LoneSite == [id |-> "s1", name |-> "A", synced |-> FALSE]
LoneLog  == [id |-> "l1", siteName |-> "A", answers |-> AnswersLocal, synced |-> FALSE]
NoIdObject == [name |-> "A"]

OddPayloads ==
    { Payload("missing", None), Payload("unparsable", None), Payload("null", None),
      Payload("scalar", None), Payload("object", NoIdObject) }

SitePayloads ==
    OddPayloads \cup { Payload("object", LoneSite), Payload("array", <<>>),
                       Payload("array", <<LoneSite>>),
                       Payload("array", <<Unsynced(DemoSite), LoneSite>>) }

LogPayloads ==
    OddPayloads \cup { Payload("object", LoneLog), Payload("array", <<>>),
                       Payload("array", <<LoneLog>>) }

\* getSites on a payload: what it returns and what the key holds afterwards
\* (stored: whether the write of the seed list, when there is one, fits).
getSitesFrom(payload, stored) ==
    CASE payload.kind = "missing" ->
            [result |-> <<>>, threw |-> FALSE,
             holds |-> IF stored THEN Payload("array", <<>>) ELSE payload]
      [] payload.kind = "array" ->
            [result |-> getSites(payload.value), threw |-> FALSE,
             holds |-> Payload("array", getSites(payload.value))]
      [] OTHER -> [result |-> <<>>, threw |-> FALSE, holds |-> payload]

\* getInspections on a payload.  Reading .id of null throws inside the try.
getInspectionsFrom(payload) ==
    CASE payload.kind = "array" -> [result |-> payload.value, threw |-> FALSE]
      [] payload.kind = "object" ->
            [result |-> IF "id" \in DOMAIN payload.value THEN <<payload.value>> ELSE <<>>,
             threw |-> FALSE]
      [] OTHER -> [result |-> <<>>, threw |-> FALSE]

\* A call of getSites; here the key holds a payload of any kind.
listSites ==
    /\ \E stored \in BOOLEAN :
          LET got == getSitesFrom(sites, stored)
          IN  /\ sites' = got.holds
              /\ last' = Step("getSites", 0, [payload |-> sites, got |-> got], TRUE,
                              <<>>, {}, TRUE)
    /\ UNCHANGED <<inspections, remoteVars, online, configured, tasks, cacheVars, summary, deleted>>

\* A call of getInspections.
listInspections ==
    /\ last' = Step("getInspections", 0,
                    [payload |-> inspections, got |-> getInspectionsFrom(inspections)],
                    TRUE, <<>>, {}, TRUE)
    /\ UNCHANGED <<localVars, remoteVars, online, configured, tasks, cacheVars, summary, deleted>>

----------------------------------------------------------------------------
\* The photo cache (IndexedDB)

PhotoKeys == {"k1", "k2"}
PhotoData == {"", "data:image/jpeg;base64,AAAA", "data:image/jpeg;base64,BBBB"}

HasPhotoKey(store, id) == \E e \in store : e.id = id

\* store.put(base64Data, id)
PhotoPut(store, id, base64Data) ==
    {e \in store : e.id # id} \cup {[id |-> id, data |-> base64Data]}

\* store.get(id), then request.result || null: undefined for a key that is
\* not there, and every falsy result, becomes null.
PhotoGet(store, id) ==
    IF HasPhotoKey(store, id)
    THEN LET result == (CHOOSE e \in store : e.id = id).data
         IN  IF result = "" THEN Null ELSE result
    ELSE Null

\* A delete that removes nothing: what C17_PromotionRewritesAndEvicts must
\* reject.
PhotoDeleteNothing(store, id) == store

\* store.delete(id)
PhotoDelete(store, id) == {e \in store : e.id # id}

CacheStep(op, arg) == Step(op, 0, arg, TRUE, <<>>, {}, TRUE)

savePhoto(id, base64Data) ==
    /\ photos' = PhotoPut(photos, id, base64Data)
    /\ last' = CacheStep("savePhoto", [id |-> id, data |-> base64Data])
    /\ UNCHANGED <<localVars, remoteVars, online, configured, tasks, bucket, summary, deleted>>

getPhoto(id) ==
    /\ last' = CacheStep("getPhoto", [id |-> id, result |-> PhotoGet(photos, id)])
    /\ UNCHANGED <<localVars, remoteVars, online, configured, tasks, cacheVars, summary, deleted>>

deletePhoto(id) ==
    /\ photos' = PhotoDelete(photos, id)
    /\ last' = CacheStep("deletePhoto", [id |-> id])
    /\ UNCHANGED <<localVars, remoteVars, online, configured, tasks, bucket, summary, deleted>>

clearAll ==
    /\ photos' = {}
    /\ last' = CacheStep("clearAll", None)
    /\ UNCHANGED <<localVars, remoteVars, online, configured, tasks, bucket, summary, deleted>>

----------------------------------------------------------------------------
\* Finalization: uploadInspectionWithPDF

LocalRef(k) == "local::" \o k

\* ans.photoUrl && ans.photoUrl.startsWith('local::')
IsLocalRef(ans) ==
    "photoUrl" \in DOMAIN ans /\ \E k \in PhotoKeys : ans.photoUrl = LocalRef(k)

\* ans.photoUrl.replace('local::', '')
LocalId(ans) == CHOOSE k \in PhotoKeys : ans.photoUrl = LocalRef(k)

\* `photos/${log.id}/${ans.pointId}.jpg`
PhotoPath(log, ans) == "photos/" \o log.id \o "/" \o ans.pointId \o ".jpg"

\* `${siteName.replace(/\s+/g, '_')}_${id}.pdf`; the site names have no blanks.
PdfPath(log) == log.siteName \o "_" \o log.id \o ".pdf"

\* supabase.storage.from('reports').getPublicUrl(path).data.publicUrl
PublicUrl(path) == "https://cdn/reports/" \o path

\* The answers whose photo the pipeline uploads: a local reference whose
\* cache lookup returned a payload.  In ascending order.
Uploadable(log, store) ==
    SelectSeq([i \in 1..Len(log.answers) |-> i],
              LAMBDA i : /\ IsLocalRef(log.answers[i])
                         /\ PhotoGet(store, LocalId(log.answers[i])) # Null)

\* An answer that is nulled out when its upload fails: what
\* C18_FailedPromotionKeepsLocal must reject.
PromotedOrCleared(ans, publicUrl) ==
    IF publicUrl # Null THEN [ans EXCEPT !.photoUrl = publicUrl]
    ELSE WithoutKey(ans, "photoUrl")

\* if (publicUrl) return { ...ans, photoUrl: publicUrl }; ... return ans
Promoted(ans, publicUrl) ==
    IF publicUrl # Null THEN [ans EXCEPT !.photoUrl = publicUrl] ELSE ans

\* A pipeline that gives up at the first failed upload: what
\* C19_FailuresAreIsolated must reject.
RestUnlessFailed(todo, publicUrl) == IF publicUrl = Null THEN <<>> ELSE Tail(todo)

\* The uploads still to come after one has returned: every answer's upload
\* runs whatever the others return.
Rest(todo, publicUrl) == Tail(todo)

\* The blob generatePdfBlob returns: null when the libraries are missing or
\* the rendering throws.
PdfBlobs == {Null, "application/pdf"}

\* db.getPhoto(id) for every local reference; if (base64) return
\* { ...ans, photoUrl: base64 }; return ans
Resolved(answers, store) ==
    [i \in 1..Len(answers) |->
        IF IsLocalRef(answers[i]) /\ PhotoGet(store, LocalId(answers[i])) # Null
        THEN [answers[i] EXCEPT !.photoUrl = PhotoGet(store, LocalId(answers[i]))]
        ELSE answers[i]]

\* return { ...log, answers: updatedAnswers }
prepareLogForPdf(log, store) == [log EXCEPT !.answers = Resolved(log.answers, store)]

\* toast.error(...); onConfirm(); return
ProceedLocally ==
    [summary EXCEPT !.toast = "error", !.confirmed = TRUE, !.confirms = @ + 1]

\* disabled={isProcessing}, on the finish button and on the PDF button
Disabled(v) == v.isProcessing

\* setIsProcessing(true); toast.loading(...)
Processing(t) == [summary EXCEPT !.isProcessing = TRUE, !.toast = "loading", !.awaits = t]

\* A failure that leaves the finish button disabled: what
\* C25_BlobFailureChangesNothing must reject.
FailedStillProcessing(v) == [v EXCEPT !.toast = "error", !.awaits = 0]

\* catch: toast.error(...); setIsProcessing(false)
Failed(v) == [v EXCEPT !.toast = "error", !.isProcessing = FALSE, !.awaits = 0]

\* toast.success(...); setTimeout(onConfirm, 1000): the timer is taken to
\* have fired.
Succeeded(v) ==
    [v EXCEPT !.toast = "success", !.confirmed = TRUE, !.awaits = 0, !.confirms = @ + 1]

\* The component after the upload in slot t has returned or thrown, when the
\* finish handler awaits it.
Finished(t, ok) ==
    IF summary.awaits # t THEN summary
    ELSE IF ok THEN Succeeded(summary) ELSE Failed(summary)

\* A finalization that sends the log with its photos inlined: what
\* C22_PhotoUrlHasOneOfThreeForms must reject.
finalLogInlined(arg) == prepareLogForPdf([arg.log EXCEPT !.answers = arg.answers], photos)

\* A finalization that records a local reference to the PDF: what
\* C29_PdfUrlIsRemote must reject.
updatedLogLocalPdf(arg) ==
    Synced(WithPdfUrl([arg.log EXCEPT !.answers = arg.answers],
                      LocalRef(PdfPath([arg.log EXCEPT !.answers = arg.answers]))))

\* A finalization that goes on after a failed remote step: what
\* C24_FailedFinalizationKeepsLog must reject.
ThrownNever(resp) == FALSE

\* if (uploadError) throw uploadError; if (dbError) throw dbError
Thrown(resp) == ~resp.ok

\* A finalization that writes the promoted answers into the log it was
\* given: what C34_PromotionLeavesInputAlone must reject.
FinalInPlace(log, answers, todo, evicted) ==
    [log |-> [log EXCEPT !.answers = answers], answers |-> answers,
     todo |-> todo, evicted |-> evicted]

\* What the finalization holds while it runs: the log it was given, the
\* answers as promoted so far, the answers whose upload is still to return,
\* and the cache keys it has evicted.
Final(log, answers, todo, evicted) ==
    [log |-> log, answers |-> answers, todo |-> todo, evicted |-> evicted]

finalLog(arg) == [arg.log EXCEPT !.answers = arg.answers]

\* { ...finalLog, pdfUrl: publicUrl, synced: true }
updatedLog(arg) ==
    Synced(WithPdfUrl(finalLog(arg), PublicUrl(PdfPath(finalLog(arg)))))

\* A finalization that uploads the PDF at once: what
\* C27_FinalizationPhasesInOrder must reject.
FinalTaskPdfAtOnce(arg) ==
    Task("uploadInspectionWithPDF", "pdf", arg,
         Request("uploadBlob", PdfPath([arg.log EXCEPT !.answers = arg.answers])), {})

\* The finalization parked on its next remote call: the upload of the next
\* photo, or of the PDF once every photo upload has returned.
FinalTask(arg) ==
    IF arg.todo # <<>>
    THEN Task("uploadInspectionWithPDF", "photos", arg,
              Request("uploadBlob", PhotoPath(arg.log, arg.log.answers[Head(arg.todo)])), {})
    ELSE Task("uploadInspectionWithPDF", "pdf", arg,
              Request("uploadBlob", PdfPath(finalLog(arg))), {})

FinalStep(op, t, arg, stored, trace, done, note) ==
    [Step(op, t, arg, stored, trace, {}, done) EXCEPT !.note = note]

\* uploadInspectionWithPDF up to its first upload: it throws when the remote
\* is not configured; otherwise every answer's cache lookup is made and the
\* uploads begin.  The uploads of one log touch different keys and different
\* answers; they are served in the order of the answers.
uploadInspectionWithPDF(t, log) ==
    /\ configured => tasks[t] = Idle
    /\ \E i \in 1..Len(inspections) : inspections[i] = log
    /\ LET arg == Final(log, log.answers, Uploadable(log, photos), {})
       IN  /\ tasks' = Park(t, configured, FinalTask(arg))
           /\ last' = FinalStep("uploadInspectionWithPDF", SlotOf(t, configured), arg,
                                TRUE, <<>>, ~configured,
                                IF configured THEN "" ELSE "rejected")
    /\ UNCHANGED <<localVars, remoteVars, online, configured, cacheVars, summary, deleted>>

\* One photo upload has returned (uploadPhotoBlob gives null on any
\* failure): on success the cache entry is deleted and the answer rewritten.
uploadInspectionWithPDFPhoto(t) ==
    /\ Resumable(t, "uploadInspectionWithPDF", "photos")
    /\ LET arg == tasks[t].arg
           i == Head(arg.todo)
           ans == arg.log.answers[i]
           publicUrl == IF tasks[t].resp.ok THEN PublicUrl(PhotoPath(arg.log, ans)) ELSE Null
           next == Final(arg.log,
                         [arg.answers EXCEPT ![i] = Promoted(ans, publicUrl)],
                         Rest(arg.todo, publicUrl),
                         IF publicUrl # Null THEN arg.evicted \cup {LocalId(ans)}
                         ELSE arg.evicted)
       IN  /\ photos' = IF publicUrl # Null THEN PhotoDelete(photos, LocalId(ans)) ELSE photos
           /\ tasks' = [tasks EXCEPT ![t] = FinalTask(next)]
           /\ last' = FinalStep("uploadInspectionWithPDFPhoto", t, next, TRUE, <<>>, FALSE,
                                IF publicUrl # Null THEN "promoted" ELSE "kept")
    /\ UNCHANGED <<localVars, remoteVars, online, configured, bucket, summary, deleted>>

\* The PDF upload has returned: an error is thrown to the caller; otherwise
\* the row is upserted.
uploadInspectionWithPDFPdf(t) ==
    /\ Resumable(t, "uploadInspectionWithPDF", "pdf")
    /\ LET arg == tasks[t].arg
           ok == ~Thrown(tasks[t].resp)
       IN  /\ tasks' = [tasks EXCEPT ![t] =
                          IF ok THEN Task("uploadInspectionWithPDF", "row", arg,
                                          Request("upsertLog", LogRow(updatedLog(arg))), {})
                          ELSE Idle]
           /\ last' = FinalStep("uploadInspectionWithPDFPdf", t, arg, TRUE, <<>>, ~ok,
                                IF ok THEN "" ELSE "rejected")
           /\ summary' = IF ok THEN summary ELSE Finished(t, FALSE)
    /\ UNCHANGED <<localVars, remoteVars, online, configured, cacheVars, deleted>>

\* The upsert of the row has returned: an error is thrown to the caller;
\* otherwise saveInspection(updatedLog) stores the log, with synced = false.
uploadInspectionWithPDFRow(t) ==
    /\ Resumable(t, "uploadInspectionWithPDF", "row")
    /\ LET arg == tasks[t].arg
           old == getInspections(inspections)
           rec == Unsynced(updatedLog(arg))
           new == Upsert(old, rec)
           stripped == StripSynced(new)
       IN  IF ~Thrown(tasks[t].resp)
           THEN \E first \in SetItemOutcomes(LogsSize(old), LogsSize(new)) :
                \E second \in RetryOutcomes(LogsSize(old), LogsSize(new), LogsSize(stripped)) :
                  /\ inspections' = IF first THEN new ELSE IF second THEN stripped ELSE old
                  /\ last' = FinalStep("uploadInspectionWithPDFRow", t, arg, first \/ second,
                                       IF first \/ second THEN <<"W_insp">> ELSE <<>>, TRUE,
                                       IF first THEN "" ELSE IF second THEN "retry"
                                       ELSE "rejected")
                  /\ summary' = Finished(t, first \/ second)
           ELSE /\ inspections' = inspections
                /\ last' = FinalStep("uploadInspectionWithPDFRow", t, arg, FALSE, <<>>, TRUE,
                                     "rejected")
                /\ summary' = Finished(t, FALSE)
    /\ tasks' = [tasks EXCEPT ![t] = Idle]
    /\ UNCHANGED <<sites, remoteVars, online, configured, cacheVars, deleted>>

\* The effect that resolves the images of the log shown: resolvedAnswers
\* holds the cached payloads in place of the local references.
resolveImages(log) ==
    /\ \E i \in 1..Len(inspections) : inspections[i] = log
    /\ summary' = [summary EXCEPT !.resolvedAnswers = Resolved(log.answers, photos)]
    /\ last' = Step("resolveImages", 0, log, TRUE, <<>>, {}, TRUE)
    /\ UNCHANGED <<localVars, remoteVars, online, configured, tasks, cacheVars, deleted>>

\* handleFinishAndUpload up to the first upload of uploadInspectionWithPDF.
\* Without configuration it proceeds locally.  Otherwise it obtains the blob
\* (generatePdfBlob renders the page and touches no stored state); without a
\* blob it fails; with one it calls uploadInspectionWithPDF(log, blob).
handleFinishAndUpload(t, log) ==
    /\ ~Disabled(summary)
    /\ summary.confirms < MaxConfirms
    /\ configured => tasks[t] = Idle
    /\ \E i \in 1..Len(inspections) : inspections[i] = log
    /\ \E blob \in PdfBlobs :
         LET arg == Final(log, log.answers, Uploadable(log, photos), {})
             uploads == configured /\ blob # Null
         IN  /\ ~configured => blob = Null
             /\ tasks' = Park(t, uploads, FinalTask(arg))
             /\ summary' = IF ~configured THEN ProceedLocally
                           ELSE IF blob = Null THEN Failed(Processing(0))
                           ELSE Processing(t)
             /\ last' = FinalStep("handleFinishAndUpload", SlotOf(t, uploads), arg,
                                  TRUE, <<>>, ~uploads,
                                  IF ~configured THEN "local"
                                  ELSE IF blob = Null THEN "no blob" ELSE "blob")
    /\ UNCHANGED <<localVars, remoteVars, online, configured, cacheVars, deleted>>

\* handleDownloadOnly up to its await of generatePdfBlob.
handleDownloadOnly ==
    /\ ~Disabled(summary)
    /\ summary' = [summary EXCEPT !.isProcessing = TRUE, !.downloading = TRUE]
    /\ last' = Step("handleDownloadOnly", 0, None, TRUE, <<>>, {}, FALSE)
    /\ UNCHANGED <<localVars, remoteVars, online, configured, tasks, cacheVars, deleted>>

\* handleDownloadOnly after its await: with a blob the file is offered and a
\* success toast shown; either way setIsProcessing(false).
handleDownloadOnlyDone ==
    /\ summary.downloading
    /\ \E blob \in PdfBlobs :
         /\ summary' = [summary EXCEPT !.isProcessing = FALSE, !.downloading = FALSE,
                                       !.toast = IF blob # Null THEN "success" ELSE "error"]
         /\ last' = [Step("handleDownloadOnlyDone", 0, None, TRUE, <<>>, {}, TRUE)
                       EXCEPT !.note = IF blob # Null THEN "blob" ELSE "no blob"]
    /\ UNCHANGED <<localVars, remoteVars, online, configured, tasks, cacheVars, deleted>>

\* The Home button: onClick={onConfirm}.  It is not disabled while
\* isProcessing is true.
homeButton ==
    /\ summary.confirms < MaxConfirms
    /\ summary' = [summary EXCEPT !.confirmed = TRUE, !.confirms = @ + 1]
    /\ last' = Step("onConfirm", 0, None, TRUE, <<>>, {}, TRUE)
    /\ UNCHANGED <<localVars, remoteVars, online, configured, tasks, cacheVars, deleted>>

----------------------------------------------------------------------------
\* Specifications

Init ==
    /\ sites \in {<<>>, <<Unsynced(DemoSite)>>}
    /\ inspections = <<>>
    /\ remoteSites = {}
    /\ remoteLogs = {}
    /\ online \in BOOLEAN
    /\ configured \in BOOLEAN
    /\ tasks = [t \in AllSlots |-> Idle]
    /\ last = Step("init", 0, None, TRUE, <<>>, {}, FALSE)
    /\ photos = {}
    /\ bucket = {}
    /\ summary = Mounted
    /\ deleted = NotRecorded

Remote ==
    \E t \in AllSlots : RemoteOk(t) \/ RemoteError(t) \/ RemoteLost(t)

Connectivity == GoOffline \/ GoOnline

SiteOps ==
    \E t \in Slots :
        \/ \E site \in SiteInputs : saveSite(t, site)
        \/ saveSiteResume(t)
        \/ \E siteId \in SiteIds : deleteSite(t, siteId)
        \/ deleteSiteResume(t)
        \/ downloadLatestSites(t)
        \/ downloadLatestSitesResume(t)

InitialLoad ==
    \E t \in Slots :
        \/ performInitialLoad(t)
        \/ performInitialLoadSites(t)
        \/ performInitialLoadLogs(t)

OtherDeviceSites ==
    \/ \E site \in SiteInputs \cup {DemoSite} : OtherDeviceSavesSite(site)
    \/ \E siteId \in SiteIds : OtherDeviceDeletesSite(siteId)

\* The sites collection: both revisions' reconciliations with saves, deletes
\* and other devices' uploads.
NextSites ==
    \/ SiteOps
    \/ InitialLoad
    \/ Remote
    \/ Connectivity
    \/ OtherDeviceSites

SpecSites == Init /\ [][NextSites]_vars

SaverOps ==
    \E t \in SaverSlots :
        \/ \E site \in SaverInputs : saveSite(t, site)
        \/ saveSiteResume(t)
        \/ \E site \in SaverInputs : deleteSite(t, site.id)
        \/ deleteSiteResume(t)

\* Saves and deletes of one site, several in flight at once.
NextSavers ==
    \/ SaverOps
    \/ Remote
    \/ Connectivity

SpecSavers == Init /\ [][NextSavers]_vars

LogOps ==
    \/ \E inspection \in LogInputs : saveInspection(inspection)
    \/ \E t \in Slots :
        \/ \E log \in Range(inspections) : uploadInspectionToSupabase(t, log)
        \/ uploadInspectionToSupabaseResume(t)

OtherDeviceLogs ==
    \E log \in OtherLogInputs : \E row \in OtherDeviceRows(log) : OtherDeviceSavesLog(row)

\* The inspection logs of the current revision.
NextLogs ==
    \/ LogOps
    \/ InitialLoad
    \/ Remote
    \/ Connectivity
    \/ OtherDeviceLogs

SpecLogs == Init /\ [][NextLogs]_vars

OldOps ==
    \E t \in Slots :
        \/ \E inspection \in OldLogInputs : saveInspectionOld(t, inspection)
        \/ saveInspectionOldResume(t)
        \/ syncPendingData(t)
        \/ syncPendingDataDownloaded(t)
        \/ syncPendingDataLogUploaded(t)
        \/ syncPendingDataSiteUploaded(t)

OldSiteOps ==
    \E t \in Slots :
        \/ \E site \in SiteInputs : saveSite(t, site)
        \/ saveSiteResume(t)

\* The earlier revision: the sync cycle over both collections.
NextOld ==
    \/ OldSiteOps
    \/ OldOps
    \/ Remote
    \/ Connectivity
    \/ OtherDeviceSites

SpecOld == Init /\ [][NextOld]_vars

ReconOps ==
    \E t \in Slots :
        \/ \E site \in SaverInputs : saveSite(t, site)
        \/ saveSiteResume(t)
        \/ downloadLatestSites(t)
        \/ downloadLatestSitesResume(t)

\* Reconciliation of both collections: the downloads of both revisions,
\* local saves, and other devices' uploads of the same records.
NextRecon ==
    \/ ReconOps
    \/ InitialLoad
    \/ \E inspection \in OldLogInputs : saveInspection(inspection)
    \/ Remote
    \/ Connectivity
    \/ \E site \in ReconOtherSites : OtherDeviceSavesSite(site)
    \/ \E log \in OtherLogInputs : \E row \in OtherDeviceRows(log) : OtherDeviceSavesLog(row)

SpecRecon == Init /\ [][NextRecon]_vars

SyncOps ==
    \E t \in Slots :
        \/ \E site \in SyncSiteInputs : saveSite(t, site)
        \/ saveSiteResume(t)
        \/ syncPendingData(t)
        \/ syncPendingDataDownloaded(t)
        \/ syncPendingDataLogUploaded(t)
        \/ syncPendingDataSiteUploaded(t)

\* The sync cycles of both revisions over records that exist only locally,
\* beside other devices' uploads of other records.
NextSync ==
    \/ SyncOps
    \/ InitialLoad
    \/ \E inspection \in OldLogInputs : saveInspection(inspection)
    \/ Remote
    \/ Connectivity
    \/ \E site \in SyncOtherSites : OtherDeviceSavesSite(site)
    \/ \E log \in SyncOtherLogs : \E row \in OtherDeviceRows(log) : OtherDeviceSavesLog(row)

SpecSync == Init /\ [][NextSync]_vars

StoreOps ==
    \/ \E t \in Slots :
        \/ \E site \in SiteInputs : saveSite(t, site)
        \/ saveSiteResume(t)
    \/ \E inspection \in StoreLogInputs : saveInspection(inspection)

\* The local store: upserts into both collections.
NextStore ==
    \/ StoreOps
    \/ Remote
    \/ Connectivity

SpecStore == Init /\ [][NextStore]_vars

\* The keys hold payloads of any kind, as older versions or other code may
\* have left them.
InitList ==
    /\ sites \in SitePayloads
    /\ inspections \in LogPayloads
    /\ remoteSites = {}
    /\ remoteLogs = {}
    /\ online \in BOOLEAN
    /\ configured \in BOOLEAN
    /\ tasks = [t \in AllSlots |-> Idle]
    /\ last = Step("init", 0, None, TRUE, <<>>, {}, FALSE)
    /\ photos = {}
    /\ bucket = {}
    /\ summary = Mounted
    /\ deleted = NotRecorded

NextList == listSites \/ listInspections

SpecList == InitList /\ [][NextList]_vars

\* Saves of inspections beside uploads that mark them synced: where the
\* capacity fallback of saveInspection has something to strip.
NextQuota ==
    \/ \E inspection \in QuotaLogInputs : saveInspection(inspection)
    \/ \E t \in Slots :
        \/ \E log \in Range(inspections) : uploadInspectionToSupabase(t, log)
        \/ uploadInspectionToSupabaseResume(t)
    \/ Remote
    \/ Connectivity

SpecQuota == Init /\ [][NextQuota]_vars

\* The photo cache alone.
NextCache ==
    \/ \E id \in PhotoKeys : \E base64Data \in PhotoData : savePhoto(id, base64Data)
    \/ \E id \in PhotoKeys : getPhoto(id)
    \/ \E id \in PhotoKeys : deletePhoto(id)
    \/ clearAll

SpecCache == Init /\ [][NextCache]_vars

FinalLogInputs ==
    [id : {"l1"}, siteName : {"A"},
     answers : {<<[pointId |-> "p1", photoUrl |-> LocalRef("k1")],
                  [pointId |-> "p2", photoUrl |-> LocalRef("k2")]>>}]

CachedPhoto(k) == [id |-> k, data |-> "data:image/jpeg;base64,AAAA"]

\* An inspection has been run: its photos are in the cache (one may be
\* missing from it) and the log is about to be saved.
InitFinal ==
    /\ sites = <<>>
    /\ inspections = <<>>
    /\ remoteSites = {}
    /\ remoteLogs = {}
    /\ online \in BOOLEAN
    /\ configured \in BOOLEAN
    /\ tasks = [t \in AllSlots |-> Idle]
    /\ last = Step("init", 0, None, TRUE, <<>>, {}, FALSE)
    /\ photos \in {{CachedPhoto("k1"), CachedPhoto("k2")}, {CachedPhoto("k1")}}
    /\ bucket = {}
    /\ summary = Mounted
    /\ deleted = NotRecorded

FinalOps ==
    \E t \in Slots :
        \/ \E log \in Range(inspections) : uploadInspectionWithPDF(t, log)
        \/ uploadInspectionWithPDFPhoto(t)
        \/ uploadInspectionWithPDFPdf(t)
        \/ uploadInspectionWithPDFRow(t)

\* The finalization of a saved inspection.
NextFinal ==
    \/ \E inspection \in FinalLogInputs : saveInspection(inspection)
    \/ FinalOps
    \/ Remote
    \/ Connectivity

SpecFinal == InitFinal /\ [][NextFinal]_vars

\* The continuations of a finalization: the event loop runs each of them
\* once the promise it awaits is settled.
FinalResume ==
    \E t \in Slots :
        \/ uploadInspectionWithPDFPhoto(t)
        \/ uploadInspectionWithPDFPdf(t)
        \/ uploadInspectionWithPDFRow(t)

\* The finalization with every remote call eventually settled and every
\* settled call eventually resumed.
SpecFinalLive == SpecFinal /\ WF_vars(FinalResume) /\ WF_vars(Remote)

FinishOps ==
    \E t \in Slots :
        \/ \E log \in Range(inspections) : handleFinishAndUpload(t, log)
        \/ uploadInspectionWithPDFPhoto(t)
        \/ uploadInspectionWithPDFPdf(t)
        \/ uploadInspectionWithPDFRow(t)

\* The summary of a saved inspection: its images are resolved and the user
\* finishes it.
NextFinish ==
    \/ \E inspection \in FinalLogInputs : saveInspection(inspection)
    \/ \E log \in Range(inspections) : resolveImages(log)
    \/ FinishOps
    \/ Remote
    \/ Connectivity

SpecFinish == InitFinal /\ [][NextFinish]_vars

\* The finalization together with the initial load, which brings the remote
\* rows and their PDF references back into the persisted logs.
NextReport ==
    \/ NextFinish
    \/ InitialLoad

SpecReport == InitFinal /\ [][NextReport]_vars

RowOps ==
    \E t \in Slots :
        \/ \E log \in Range(inspections) : uploadInspectionToSupabase(t, log)
        \/ uploadInspectionToSupabaseResume(t)

\* Every writer and the reader of the remote inspections rows: the
\* finalization, the upload of a log, and the initial load.
NextRows ==
    \/ \E inspection \in FinalLogInputs : saveInspection(inspection)
    \/ FinalOps
    \/ RowOps
    \/ InitialLoad
    \/ Remote
    \/ Connectivity

SpecRows == InitFinal /\ [][NextRows]_vars

NoDeletions == [ids |-> {}, before |-> [t \in AllSlots |-> {}]]

\* No site is stored remotely, and deletions are recorded.
InitDelete ==
    /\ sites \in {<<>>, <<Unsynced(DemoSite)>>}
    /\ inspections = <<>>
    /\ remoteSites = {}
    /\ remoteLogs = {}
    /\ online \in BOOLEAN
    /\ configured \in BOOLEAN
    /\ tasks = [t \in AllSlots |-> Idle]
    /\ last = Step("init", 0, None, TRUE, <<>>, {}, FALSE)
    /\ photos = {}
    /\ bucket = {}
    /\ summary = Mounted
    /\ deleted = NoDeletions

\* Saves, deletes and reconciliations of this device alone.
NextDelete ==
    \/ SiteOps
    \/ InitialLoad
    \/ Remote
    \/ Connectivity

SpecDelete == InitDelete /\ [][NextDelete]_vars

\* A call of getInspections where the key holds a list of logs: the list is
\* parsed and returned; nothing is written.
readInspections ==
    /\ last' = Step("getInspections", 0, getInspections(inspections), TRUE, <<>>, {}, TRUE)
    /\ UNCHANGED <<localVars, remoteVars, online, configured, tasks, cacheVars, summary, deleted>>

FrameOps ==
    \/ \E t \in Slots :
        \/ \E site \in SaverInputs : saveSite(t, site)
        \/ saveSiteResume(t)
        \/ \E site \in SaverInputs : deleteSite(t, site.id)
        \/ deleteSiteResume(t)
    \/ LogOps
    \/ readInspections

\* The operations on the sites beside those on the inspections, with
\* photos in the cache.
NextFrame ==
    \/ FrameOps
    \/ Remote
    \/ Connectivity

SpecFrame == InitFinal /\ [][NextFrame]_vars

ScreenOps == handleDownloadOnly \/ handleDownloadOnlyDone \/ homeButton

\* The summary screen: its finish button, its PDF button and its Home button.
NextScreen ==
    \/ NextFinish
    \/ ScreenOps

SpecScreen == InitFinal /\ [][NextScreen]_vars

RaceOps ==
    \/ InitialLoad
    \/ \E t \in SaverSlots \ Slots :
        \/ \E site \in SaverInputs : saveSite(t, site)
        \/ saveSiteResume(t)

\* An initial load with a save of a site in flight beside it.
NextRace ==
    \/ RaceOps
    \/ Remote
    \/ Connectivity

SpecRace == Init /\ [][NextRace]_vars

Next ==
    \/ SiteOps
    \/ LogOps
    \/ InitialLoad
    \/ OldOps
    \/ Remote
    \/ Connectivity
    \/ OtherDeviceSites
    \/ OtherDeviceLogs

Spec == Init /\ [][Next]_vars

----------------------------------------------------------------------------
\* Vocabulary of the properties

\* A record's content: everything but its synced flag.
Content(rec) == WithoutKey(rec, "synced")

HasContent(list, rec) == \E j \in 1..Len(list) : Content(list[j]) = Content(rec)

Holds(list, rec) == \E j \in 1..Len(list) : list[j] = rec

\* The steps that merge fetched rows into a local collection.
SiteMergeSteps ==
    {"downloadLatestSitesResume", "performInitialLoadSites", "syncPendingDataDownloaded"}

LogMergeSteps == {"performInitialLoadLogs"}

\* In a step that resumes an operation: the rows its select had returned.
\* (An action-level expression: the slot is the new state's, the response
\* the old state's.)
FetchedRows == tasks[last'.t].resp.data

Count(trace, tag) == Cardinality({i \in 1..Len(trace) : trace[i] = tag})

----------------------------------------------------------------------------
\* C1: a local edit that is not yet synced keeps its content when a
\* reconciliation (downloadLatestSites, the download of syncPendingData,
\* performInitialLoad) fetches a remote row with the same id; only the
\* synced flag may change.  (The demo site, which getSites always drops,
\* is not a local edit.)
C1_LocalEditSurvivesDownload ==
    [][ /\ last'.op \in SiteMergeSteps =>
              \A i \in 1..Len(sites) :
                  ( /\ ~sites[i].synced
                    /\ sites[i].id # DemoSiteId
                    /\ sites[i].id \in Ids(FetchedRows) )
                      => HasContent(sites', sites[i])
        /\ last'.op \in LogMergeSteps =>
              \A i \in 1..Len(inspections) :
                  (~inspections[i].synced /\ inspections[i].id \in Ids(FetchedRows))
                      => HasContent(inspections', inspections[i])
      ]_vars

\* C3: reconciliation never deletes a local record: a record present before
\* a merge whose id is not among the fetched ids is present afterwards with
\* the same content, whatever its synced flag.  (The demo site, which
\* getSites always drops, is set aside.)
C3_ReconciliationNeverDeletes ==
    [][ /\ (last'.op \in SiteMergeSteps /\ tasks[last'.t].resp.ok) =>
              \A i \in 1..Len(sites) :
                  (sites[i].id # DemoSiteId /\ sites[i].id \notin Ids(FetchedRows))
                      => HasContent(sites', sites[i])
        /\ (last'.op \in LogMergeSteps /\ tasks[last'.t].resp.ok) =>
              \A i \in 1..Len(inspections) :
                  inspections[i].id \notin Ids(FetchedRows)
                      => HasContent(inspections', inspections[i])
      ]_vars

\* The local collection is what a reconciliation of these rows leaves
\* behind: every row's payload is stored, marked synced.
SitesReconciled(rows) ==
    /\ getSites(sites) = sites
    /\ \A i \in 1..Len(rows) : Holds(sites, Synced(rows[i].data))

\* C5: a reconciliation that finds the local collection as a previous
\* reconciliation of the same rows left it performs no write of the
\* collection and raises no notification for it.
C5_SecondRunIsSilent ==
    [][ (last'.op \in SiteMergeSteps /\ tasks[last'.t].resp.ok
           /\ FetchedRows # <<>> /\ SitesReconciled(FetchedRows))
          => (Count(last'.trace, "W_sites") = 0 /\ Count(last'.trace, "N_sites") = 0)
      ]_vars

\* C6: one merge of the sites performs at most one write of the sites; it
\* writes nothing and notifies nobody when no slot changed.
C6_OneWriteOnlyOnChange ==
    [][ (last'.op \in SiteMergeSteps /\ getSites(sites) = sites) =>
          /\ Count(last'.trace, "W_sites") <= 1
          /\ sites' = sites =>
                (Count(last'.trace, "W_sites") = 0 /\ Count(last'.trace, "N_sites") = 0)
      ]_vars

\* The remote row stored under the record's id has the record's content.
RemoteHolds(rows, rec) == \E r \in rows : r.id = rec.id /\ Content(r.data) = Content(rec)

\* C7: on a single device, every local site or inspection log with
\* synced = true has the content of the remote row stored under its id.
C7_SyncedMeansIdenticalToRemote ==
    /\ \A i \in 1..Len(sites) : sites[i].synced => RemoteHolds(remoteSites, sites[i])
    /\ \A i \in 1..Len(inspections) :
          inspections[i].synced => RemoteHolds(remoteLogs, inspections[i])

\* C8: the acknowledgement of a site's upsert marks synced only the version
\* that was uploaded: a record the resumed saveSite turns synced has the
\* content of the save the acknowledgement belongs to.
C8_AckMarksOnlyUploadedVersion ==
    [][ last'.op = "saveSiteResume" =>
          \A j \in 1..Len(sites') :
              (sites'[j].synced /\ ~Holds(sites, sites'[j]))
                  => Content(sites'[j]) = Content(tasks[last'.t].arg)
      ]_vars

\* C10: an operation that has returned owes no notification: each write of
\* a collection was followed, within the operation, by that collection's
\* notification.
C10_EveryWriteIsNotified == last.done => last.owed = {}

\* The steps of the sync cycles: the merges, and the steps that resume after
\* the upload of one pending record.
SyncUploadSteps == {"syncPendingDataLogUploaded", "syncPendingDataSiteUploaded"}

SyncCycleSteps ==
    {"syncPendingDataDownloaded", "performInitialLoadSites", "performInitialLoadLogs"}
        \cup SyncUploadSteps

\* The step resumes the cycle after the acknowledged upload of this record.
Acked(op, id) ==
    /\ last'.op = op
    /\ tasks[last'.t].resp.ok
    /\ Head(tasks[last'.t].arg).id = id

\* The record is kept by the step, and turns synced only by its own
\* acknowledged upload.
KeptBy(list, listAfter, i, ackStep) ==
    \E j \in 1..Len(listAfter) :
        /\ Content(listAfter[j]) = Content(list[i])
        /\ (listAfter[j].synced /\ ~list[i].synced) => Acked(ackStep, list[i].id)

Diverges(list, payload) ==
    \A i \in 1..Len(list) : list[i].id = payload.id => list[i] # payload

\* The list's record of that id, if it is pending (not synced).
PendingWith(list, id) == {list[i] : i \in {k \in 1..Len(list) : list[k].id = id /\ ~list[k].synced}}

UpsertPost(old, new, rec) ==
    IF \E i \in 1..Len(old) : old[i].id = rec.id
    THEN /\ Len(new) = Len(old)
         /\ \A i \in 1..Len(old) : new[i] = IF old[i].id = rec.id THEN rec ELSE old[i]
    ELSE new = Append(old, rec)

\* C9 as stated: after saveSite / saveInspection of a record the persisted
\* collection is the previous one with the record, synced = false, replaced
\* in place or appended, and nothing else changed.
C9_UpsertPostcondition ==
    [][ /\ last'.op = "saveSite" => UpsertPost(sites, sites', last'.arg)
        /\ last'.op = "saveInspection" => UpsertPost(inspections, inspections', last'.arg)
      ]_vars

\* C9, amended: the postcondition holds when the first write of the
\* collection is stored, over the sites without the demo site, which
\* getSites drops; a saveSite whose write is refused leaves the sites as
\* getSites returned them, and a saveInspection rejected after its retry
\* leaves the inspections as they were.
C9_UpsertWhenStored ==
    [][ /\ last'.op = "saveSite" =>
              /\ ~last'.arg.synced
              /\ IF last'.stored THEN UpsertPost(getSites(sites), sites', last'.arg)
                 ELSE sites' = getSites(sites)
        /\ last'.op = "saveInspection" =>
              /\ ~last'.arg.synced
              /\ last'.note = "" => UpsertPost(inspections, inspections', last'.arg)
              /\ last'.note = "rejected" => inspections' = inspections
      ]_vars

\* A saveSite has just replaced, in place, the first of two stored sites.
C9_Witness ==
    /\ last.op = "saveSite"
    /\ last.stored
    /\ Len(sites) = 2
    /\ sites[1] = last.arg
    /\ sites[2].id # last.arg.id

\* C11 as stated: after deleteSite(id) the persisted sites are the previous
\* ones without the record of that id, every other record where it was, and
\* sites-updated is raised after the write.
C11_DeleteLeavesOthers ==
    [][ last'.op = "deleteSite" =>
          /\ sites' = SelectSeq(sites, LAMBDA s : s.id # last'.arg)
          /\ last'.owed = {}
      ]_vars

\* C11, amended: after deleteSite(id), connected or not, the persisted
\* sites hold no record with that id; every other record except the demo
\* site, which getSites drops, is unchanged and in the same order; the
\* collection is written once and sites-updated raised once, after the
\* write; an id that is not present changes nothing but the demo site.
C11_DeleteRemovesOnlyThatId ==
    [][ last'.op = "deleteSite" =>
          /\ last'.arg \notin Ids(sites')
          /\ sites' = SelectSeq(sites, LAMBDA s : s.id \notin {last'.arg, DemoSiteId})
          /\ last'.trace = CleanupTrace(sites) \o <<"W_sites", "N_sites">>
          /\ last'.owed = {}
          /\ last'.done = ~Connected
      ]_vars

\* A deleteSite issued while offline has just removed a stored site and
\* left another one in place.
C11_Witness ==
    /\ last.op = "deleteSite"
    /\ last.note = "removed"
    /\ last.done
    /\ ~online
    /\ Len(sites) = 1

\* What the tolerant list returns for a payload that is not an array: the
\* lone record when the payload is an object with an id, nothing otherwise.
Coerced(payload) ==
    IF payload.kind = "object" /\ "id" \in DOMAIN payload.value
    THEN <<payload.value>> ELSE <<>>

\* C12: getSites and getInspections never throw; a payload that is a lone
\* record with an id comes back as a one-element collection, and a missing,
\* unparsable or other non-array payload as the empty collection.
C12_ListIsTolerant ==
    [][ last'.op \in {"getSites", "getInspections"} =>
          /\ ~last'.arg.got.threw
          /\ last'.arg.payload.kind # "array"
                => last'.arg.got.result = Coerced(last'.arg.payload)
      ]_vars

\* In a step of saveInspection: the list its first write attempted.
Attempted == Upsert(inspections, last'.arg)

HasPhoto(log) == \E i \in 1..Len(log.answers) : "photoUrl" \in DOMAIN log.answers[i]

\* C13: when the first write of saveInspection is refused for lack of room
\* and the retry is stored, the stored list has the attempted list's records
\* in the same order; the records with synced = true have lost their
\* answers' photo references and nothing else; the records with
\* synced = false, the saved one among them, are as attempted; the
\* collection is written once.  A first write that is stored strips nothing.
C13_RetryStripsOnlySynced ==
    [][ last'.op = "saveInspection" =>
          /\ last'.note = "retry" =>
                /\ Len(inspections') = Len(Attempted)
                /\ \A i \in 1..Len(Attempted) :
                      inspections'[i] = IF Attempted[i].synced
                                        THEN stripHeavyData(Attempted[i])
                                        ELSE Attempted[i]
                /\ Holds(inspections', last'.arg)
                /\ last'.trace = <<"W_insp">>
          /\ last'.note = "" => inspections' = Attempted
      ]_vars

\* A retry has just been stored: a synced log has no photo reference left
\* and the saved, unsynced log has kept its own.
C13_Witness ==
    /\ last.op = "saveInspection"
    /\ last.note = "retry"
    /\ \E i \in 1..Len(inspections) : inspections[i].synced /\ ~HasPhoto(inspections[i])
    /\ \E i \in 1..Len(inspections) :
          inspections[i] = last.arg /\ HasPhoto(inspections[i])

\* C14: a local write that fails for good (in saveSite at once, in
\* saveInspection after its retry) does not reject the operation and leaves
\* the persisted records as they were (for the sites: as getSites returned
\* them).
C14_WriteFailureIsNonFatal ==
    [][ /\ (last'.op = "saveSite" /\ ~last'.stored) =>
              /\ last'.note # "rejected"
              /\ sites' = getSites(sites)
        /\ (last'.op = "saveInspection" /\ ~last'.stored) =>
              /\ last'.note # "rejected"
              /\ inspections' = inspections
      ]_vars

\* The entries of the cache under other ids.
Others(store, id) == {e \in store : e.id # id}

C16_RemoteCallsAreGated ==
    [][ \A t \in AllSlots :
          (tasks[t] = Idle /\ tasks'[t] # Idle) => (online /\ configured)
      ]_vars

\* In a step that handles the return of a photo upload: the finalization as
\* it stood, the answer whose upload has returned, and whether it succeeded.
PhotoReturn == last'.op = "uploadInspectionWithPDFPhoto"

Before == tasks[last'.t].arg

Returned == Head(Before.todo)

ReturnedAnswer == Before.log.answers[Returned]

UploadOk == tasks[last'.t].resp.ok

\* The log with the given id as persisted, or None.
Persisted(id) ==
    IF \E i \in 1..Len(inspections) : inspections[i].id = id
    THEN inspections[CHOOSE i \in 1..Len(inspections) : inspections[i].id = id]
    ELSE None

\* C17: when the upload of the photo of an answer with reference local::k
\* and a cache entry under k succeeds, the answer in the resulting log holds
\* the public URL of the uploaded file, which is in the bucket, and the cache
\* has no entry under k; the log then sent to the remote and stored locally
\* carries these answers.
C17_PromotionRewritesAndEvicts ==
    [][ /\ (PhotoReturn /\ UploadOk) =>
              /\ ReturnedAnswer.photoUrl = LocalRef(LocalId(ReturnedAnswer))
              /\ last'.arg.answers[Returned] =
                    [ReturnedAnswer EXCEPT
                        !.photoUrl = PublicUrl(PhotoPath(Before.log, ReturnedAnswer))]
              /\ PhotoPath(Before.log, ReturnedAnswer) \in bucket
              /\ ~HasPhotoKey(photos', LocalId(ReturnedAnswer))
        /\ (last'.op = "uploadInspectionWithPDFPdf" /\ ~last'.done) =>
              tasks'[last'.t].req.payload.data.answers = Before.answers
        /\ (last'.op = "uploadInspectionWithPDFRow" /\ last'.stored) =>
              \E i \in 1..Len(inspections') :
                  /\ inspections'[i].id = Before.log.id
                  /\ inspections'[i].answers = Before.answers
      ]_vars

\* A finalization has ended with the log stored: its first answer holds the
\* public URL and the cache has lost the entry the answer referred to.
C17_Witness ==
    /\ last.op = "uploadInspectionWithPDFRow"
    /\ last.stored
    /\ last.arg.log.answers[1].photoUrl = LocalRef("k1")
    /\ Persisted("l1").answers[1].photoUrl = PublicUrl("photos/l1/p1.jpg")
    /\ ~HasPhotoKey(photos, "k1")
    /\ "photos/l1/p1.jpg" \in bucket

\* C18: an answer with reference local::k whose cache lookup finds nothing
\* is not uploaded and keeps its reference; an answer whose upload fails
\* keeps exactly its reference, and the step leaves the cache as it is; the
\* log stored at the end carries these answers.
C18_FailedPromotionKeepsLocal ==
    [][ /\ (last'.op = "uploadInspectionWithPDF" /\ ~last'.done) =>
              \A i \in 1..Len(last'.arg.log.answers) :
                  LET ans == last'.arg.log.answers[i]
                  IN  (IsLocalRef(ans) /\ PhotoGet(photos, LocalId(ans)) = Null) =>
                          /\ \A j \in 1..Len(last'.arg.todo) : last'.arg.todo[j] # i
                          /\ last'.arg.answers[i] = ans
        /\ (PhotoReturn /\ ~UploadOk) =>
              /\ last'.arg.answers = Before.answers
              /\ last'.arg.answers[Returned] = ReturnedAnswer
              /\ last'.arg.answers[Returned].photoUrl = LocalRef(LocalId(ReturnedAnswer))
              /\ photos' = photos
        /\ PhotoReturn =>
              \A i \in 1..Len(Before.answers) :
                  i # Returned => last'.arg.answers[i] = Before.answers[i]
        /\ (last'.op = "uploadInspectionWithPDFRow" /\ last'.stored) =>
              \E i \in 1..Len(inspections') :
                  /\ inspections'[i].id = Before.log.id
                  /\ \A j \in 1..Len(Before.answers) :
                        "photoUrl" \in DOMAIN Before.log.answers[j] =>
                            "photoUrl" \in DOMAIN inspections'[i].answers[j]
      ]_vars

\* A finalization has ended with the log stored: the first answer's upload
\* failed and its entry is still cached; the second answer's photo was never
\* in the cache; both answers still hold their local references.
C18_Witness ==
    /\ last.op = "uploadInspectionWithPDFRow"
    /\ last.stored
    /\ Persisted("l1").answers[1].photoUrl = LocalRef("k1")
    /\ PhotoGet(photos, "k1") = "data:image/jpeg;base64,AAAA"
    /\ Persisted("l1").answers[2].photoUrl = LocalRef("k2")
    /\ ~HasPhotoKey(photos, "k2")
    /\ last.arg.evicted = {}

\* In a step that handles the return of a photo upload: an upload of this
\* finalization has failed before.
FailedBefore ==
    \E j \in 1..Len(Before.answers) :
        /\ j < Returned
        /\ IsLocalRef(Before.answers[j])
        /\ HasPhotoKey(photos, LocalId(Before.answers[j]))

\* C19: a failed photo upload does not end the finalization: the uploads
\* still to come stay to come, the answers promoted so far stay promoted and
\* nothing is thrown; an upload that succeeds after another has failed is
\* promoted like any other; the log that goes on to the PDF upload has all
\* the answers of the log given.
C19_FailuresAreIsolated ==
    [][ /\ (PhotoReturn /\ ~UploadOk) =>
              /\ last'.arg.todo = Tail(Before.todo)
              /\ last'.arg.evicted = Before.evicted
              /\ ~last'.done
              /\ last'.note # "rejected"
              /\ tasks'[last'.t].op = "uploadInspectionWithPDF"
              /\ tasks'[last'.t].pc = IF Tail(Before.todo) = <<>> THEN "pdf" ELSE "photos"
        /\ (PhotoReturn /\ UploadOk /\ FailedBefore) =>
              /\ last'.arg.answers[Returned].photoUrl =
                    PublicUrl(PhotoPath(Before.log, ReturnedAnswer))
              /\ LocalId(ReturnedAnswer) \in last'.arg.evicted
              /\ ~HasPhotoKey(photos', LocalId(ReturnedAnswer))
        /\ PhotoReturn => Len(last'.arg.answers) = Len(Before.log.answers)
      ]_vars

\* The first answer's upload failed and the second answer's succeeded: the
\* first still refers to its cached photo, the second holds the public URL
\* and its cache entry is gone; the finalization goes on to the PDF.
C19_Witness ==
    /\ last.op = "uploadInspectionWithPDFPhoto"
    /\ last.note = "promoted"
    /\ last.arg.answers[1].photoUrl = LocalRef("k1")
    /\ HasPhotoKey(photos, "k1")
    /\ last.arg.answers[2].photoUrl = PublicUrl("photos/l1/p2.jpg")
    /\ ~HasPhotoKey(photos, "k2")
    /\ tasks[last.t].pc = "pdf"

\* C20: after a finalization has ended, no persisted log has an answer
\* whose local reference names a cache entry that the finalization evicted.
C20_NoDanglingLocalReference ==
    (/\ last.op \in {"uploadInspectionWithPDFPdf", "uploadInspectionWithPDFRow"}
     /\ last.done) =>
        \A i \in 1..Len(inspections) :
            \A j \in 1..Len(inspections[i].answers) :
                \A k \in last.arg.evicted :
                    "photoUrl" \in DOMAIN inspections[i].answers[j] =>
                        inspections[i].answers[j].photoUrl # LocalRef(k)

\* The forms of a photo reference: a remote URL, a local reference, absent.
IsRemoteUrl(url) == Len(url) >= 8 /\ SubSeq(url, 1, 8) = "https://"

IsRemote(ans) == "photoUrl" \in DOMAIN ans /\ IsRemoteUrl(ans.photoUrl)

IsLocal(ans) ==
    /\ "photoUrl" \in DOMAIN ans
    /\ Len(ans.photoUrl) > 7
    /\ SubSeq(ans.photoUrl, 1, 7) = "local::"

\* The only changes an answer's photo reference may undergo.
RefMoves(old, new) ==
    \/ ("photoUrl" \in DOMAIN old) = ("photoUrl" \in DOMAIN new)
         /\ ("photoUrl" \in DOMAIN old => new.photoUrl = old.photoUrl)
    \/ IsLocal(old) /\ IsRemote(new)

\* In a step: the logs kept under their id whose content is not the
\* caller's own (saveInspection stores what its caller hands it).
Rewritten(i, j) ==
    /\ inspections[i].id = inspections'[j].id
    /\ ~(last'.op = "saveInspection" /\ last'.arg.id = inspections[i].id)

\* C21: in every step, each answer of a persisted log that stays persisted
\* keeps its photo reference or goes from a local reference to a remote one.
C21_PhotoUrlOnlyGoesRemote ==
    [][ \A i \in 1..Len(inspections) : \A j \in 1..Len(inspections') :
          Rewritten(i, j) =>
              /\ Len(inspections'[j].answers) = Len(inspections[i].answers)
              /\ \A a \in 1..Len(inspections[i].answers) :
                    RefMoves(inspections[i].answers[a], inspections'[j].answers[a])
      ]_vars

\* Absent, a local reference or a remote URL, and no two of them.
OneForm(ans) ==
    \/ "photoUrl" \notin DOMAIN ans
    \/ IsLocal(ans) /\ ~IsRemote(ans)
    \/ IsRemote(ans) /\ ~IsLocal(ans)

\* An inline payload, as the image resolution produces it.
IsInline(ans) ==
    /\ "photoUrl" \in DOMAIN ans
    /\ Len(ans.photoUrl) >= 5
    /\ SubSeq(ans.photoUrl, 1, 5) = "data:"

\* C22: every answer of every persisted log and of every remote row has no
\* photo reference, a local reference or a remote URL; the payloads the
\* image resolution puts in place of the references stay in the component.
C22_PhotoUrlHasOneOfThreeForms ==
    /\ \A i \in 1..Len(inspections) :
          \A a \in 1..Len(inspections[i].answers) : OneForm(inspections[i].answers[a])
    /\ \A row \in remoteLogs :
          \A a \in 1..Len(row.data.answers) : OneForm(row.data.answers[a])

\* The images were resolved to their payloads, and a finalization in which
\* an upload failed has stored its log remotely and locally.
C22_Witness ==
    /\ last.op = "uploadInspectionWithPDFRow"
    /\ last.stored
    /\ Len(summary.resolvedAnswers) > 0
    /\ IsInline(summary.resolvedAnswers[1])
    /\ \E row \in remoteLogs : IsLocal(row.data.answers[1])
    /\ IsLocal(Persisted("l1").answers[1])

\* C23: when a finalization has ended with every remote step successful and
\* its log stored, the persisted log carries the public URL of the PDF and
\* has synced = true.
C23_FinalizedLogIsSynced ==
    (/\ last.op = "uploadInspectionWithPDFRow"
     /\ last.stored
     /\ \A a \in 1..Len(last.arg.answers) :
           IsLocal(last.arg.answers[a]) => ~HasPhotoKey(photos, LocalId(last.arg.answers[a]))) =>
        /\ "pdfUrl" \in DOMAIN Persisted(last.arg.log.id)
        /\ IsRemoteUrl(Persisted(last.arg.log.id).pdfUrl)
        /\ Persisted(last.arg.log.id).synced

\* In a step of a finalization: the remote step whose answer it handles
\* has failed.
RemoteStepFailed ==
    /\ last'.op \in {"uploadInspectionWithPDFPdf", "uploadInspectionWithPDFRow"}
    /\ ~tasks[last'.t].resp.ok

\* C24: a finalization writes the persisted logs in one step only, after
\* the upsert of its row has succeeded.  When the PDF upload or the upsert
\* fails, the operation throws without any write: the persisted logs are as
\* they were, and the finish handler that awaits it shows the error and
\* enables the button again.
C24_FailedFinalizationKeepsLog ==
    [][ /\ last'.op \in {"handleFinishAndUpload", "uploadInspectionWithPDF",
                         "uploadInspectionWithPDFPhoto", "uploadInspectionWithPDFPdf"} =>
              inspections' = inspections
        /\ RemoteStepFailed =>
              /\ inspections' = inspections
              /\ last'.done /\ last'.note = "rejected"
              /\ tasks'[last'.t] = Idle
              /\ summary.awaits = last'.t =>
                    /\ summary'.toast = "error"
                    /\ ~summary'.isProcessing
                    /\ summary'.confirmed = summary.confirmed
      ]_vars

\* A finalization that had promoted a photo has failed at a later remote
\* step: the persisted log is the log it was given.
C24_Witness ==
    /\ last.op \in {"uploadInspectionWithPDFPdf", "uploadInspectionWithPDFRow"}
    /\ last.note = "rejected"
    /\ ~last.stored \/ last.op = "uploadInspectionWithPDFPdf"
    /\ last.arg.evicted # {}
    /\ Persisted(last.arg.log.id) = last.arg.log
    /\ "pdfUrl" \notin DOMAIN Persisted(last.arg.log.id)
    /\ summary.toast = "error"

\* C25: when generatePdfBlob gives no blob, the finish handler ends in the
\* same step: the persisted logs, the photo cache, the remote tables and
\* the bucket are as before, no operation is suspended on a remote call, the
\* error is shown, the button is enabled again and onConfirm is not called.
C25_BlobFailureChangesNothing ==
    [][ (last'.op = "handleFinishAndUpload" /\ last'.note = "no blob") =>
          /\ inspections' = inspections
          /\ photos' = photos
          /\ remoteLogs' = remoteLogs /\ remoteSites' = remoteSites /\ bucket' = bucket
          /\ tasks' = tasks
          /\ \A t \in Slots : tasks'[t] = Idle
          /\ last'.done
          /\ summary'.toast = "error"
          /\ ~summary'.isProcessing
          /\ summary'.confirmed = summary.confirmed
      ]_vars

\* The finish handler has failed for lack of a blob: the draft with its
\* local references and the cached photos are still there.
C25_Witness ==
    /\ last.op = "handleFinishAndUpload"
    /\ last.note = "no blob"
    /\ Persisted("l1") = last.arg.log
    /\ ~Persisted("l1").synced
    /\ "pdfUrl" \notin DOMAIN Persisted("l1")
    /\ HasPhotoKey(photos, "k1")
    /\ bucket = {}
    /\ summary.toast = "error" /\ ~summary.isProcessing

\* C26: a finish handler triggered while the remote is not configured or
\* the device is offline, and not stopped for lack of a blob, suspends on no
\* remote call, leaves the persisted logs as they are and calls onConfirm.
C26_UnreachableProceedsLocally ==
    [][ (/\ last'.op = "handleFinishAndUpload"
         /\ last'.note # "no blob"
         /\ ~(online /\ configured)) =>
          /\ tasks' = tasks
          /\ inspections' = inspections
          /\ summary'.confirmed
      ]_vars

\* C27: a finalization issues the PDF upload when no photo upload is still
\* to return, and not after another PDF upload; it issues the upsert of the
\* row after a PDF upload that succeeded; it writes the persisted logs in the
\* step that follows an upsert that succeeded, and ends there.
C27_FinalizationPhasesInOrder ==
    [][ \A t \in Slots :
          LET was == tasks[t]
              is == tasks'[t]
              runs(task) == task # Idle /\ task.op = "uploadInspectionWithPDF"
              acts == last'.t = t /\ last'.op # "env"
          IN  /\ (runs(is) /\ acts /\ is.pc = "photos") =>
                    (~runs(was) \/ was.pc = "photos")
              /\ (runs(is) /\ acts /\ is.pc = "pdf") =>
                    /\ is.arg.todo = <<>>
                    /\ ~runs(was) \/ (was.pc = "photos" /\ Len(was.arg.todo) = 1)
              /\ (runs(is) /\ acts /\ is.pc = "row") =>
                    (runs(was) /\ was.pc = "pdf" /\ was.resp.ok)
              /\ (runs(was) /\ acts /\ inspections' # inspections) =>
                    (was.pc = "row" /\ was.resp.ok /\ is = Idle)
              /\ (runs(was) /\ acts /\ was.pc = "row") => is = Idle
              /\ (runs(was) /\ acts /\ was.pc = "pdf") => (is = Idle \/ is.pc = "row")
      ]_vars

\* A finalization has gone through the promotion of a photo, the PDF
\* upload, the upsert and the local write.
C27_Witness ==
    /\ last.op = "uploadInspectionWithPDFRow"
    /\ last.stored
    /\ last.arg.evicted # {}
    /\ "A_l1.pdf" \in bucket
    /\ \E row \in remoteLogs : row.id = "l1" /\ row.pdf_url # Null
    /\ "pdfUrl" \in DOMAIN Persisted("l1")

\* C28: when the finish handler has obtained the PDF blob, no photo of the
\* log is still to be promoted.
C28_PromotionBeforeBlob ==
    [][ (last'.op = "handleFinishAndUpload" /\ last'.note = "blob") =>
          /\ last'.arg.todo = <<>>
          /\ tasks'[last'.t].pc # "photos"
      ]_vars

\* A PDF reference as a finalization sets it: the public URL of the log's
\* PDF, which is in the bucket.
IsReport(url, log) ==
    /\ IsRemoteUrl(url)
    /\ ~(Len(url) >= 7 /\ SubSeq(url, 1, 7) = "local::")
    /\ url = PublicUrl(PdfPath(log))
    /\ PdfPath(log) \in bucket

\* C29: the pdfUrl of every persisted log, and the pdf_url and the pdfUrl
\* of every remote row, is absent or the public URL of the log's uploaded
\* PDF.
C29_PdfUrlIsRemote ==
    /\ \A i \in 1..Len(inspections) :
          "pdfUrl" \in DOMAIN inspections[i] =>
              IsReport(inspections[i].pdfUrl, inspections[i])
    /\ \A row \in remoteLogs :
          /\ row.pdf_url # Null => IsReport(row.pdf_url, row.data)
          /\ "pdfUrl" \in DOMAIN row.data => IsReport(row.data.pdfUrl, row.data)

\* A finalization has stored its PDF reference remotely and locally.
C29_Witness ==
    /\ \E row \in remoteLogs : row.pdf_url = PublicUrl("A_l1.pdf")
    /\ "pdfUrl" \in DOMAIN Persisted("l1")
    /\ Persisted("l1").pdfUrl = PublicUrl("A_l1.pdf")
    /\ "A_l1.pdf" \in bucket
    /\ last.op = "performInitialLoadLogs"

\* In a step: the sync cycle in slot t issues the upload of a record.
CycleUploads(t) ==
    /\ tasks'[t] # Idle
    /\ tasks'[t].op = "syncPendingData"
    /\ tasks'[t].pc \in {"logs", "sites"}
    /\ last'.t = t /\ last'.op # "env"

\* C30: the first request of a sync cycle is the download; the cycle issues
\* an upload only once the download has returned and been merged, and never
\* downloads again; every site the merge writes is stored with
\* synced = true, and every site the cycle uploads is one stored with
\* synced = false at the time of the upload: the cycle uploads no record
\* that its download has written.
C30_DownloadBeforeUploads ==
    [][ /\ \A t \in Slots :
            /\ CycleUploads(t) =>
                  /\ tasks[t] # Idle /\ tasks[t].op = "syncPendingData"
                  /\ tasks[t].resp # None
                  /\ last'.op # "syncPendingData"
            /\ (tasks'[t] # Idle /\ tasks'[t].op = "syncPendingData"
                  /\ tasks'[t].pc = "download") =>
                  (tasks[t] = Idle \/ (tasks[t].op = "syncPendingData"
                                        /\ tasks[t].pc = "download"))
            /\ (CycleUploads(t) /\ tasks'[t].pc = "sites") =>
                  /\ ~tasks'[t].req.payload.data.synced
                  /\ \E i \in 1..Len(sites') : sites'[i] = tasks'[t].req.payload.data
        /\ (last'.op = "syncPendingDataDownloaded" /\ last'.stored) =>
              \A i \in 1..Len(sites') :
                  (\A j \in 1..Len(sites) : sites[j] # sites'[i]) => sites'[i].synced
      ]_vars

\* The download of a cycle has written a fetched site and the cycle has gone
\* on to upload a pending record.
C30_Witness ==
    /\ last.op = "syncPendingDataDownloaded"
    /\ last.stored
    /\ last.fetched # {}
    /\ \E i \in 1..Len(sites) : sites[i].id \in last.fetched /\ sites[i].synced
    /\ tasks[last.t] # Idle
    /\ tasks[last.t].pc \in {"logs", "sites"}

\* C31: saveSite and saveInspection issue the remote upsert of a record only
\* in a step in which the record has been written to its local collection:
\* when the local write fails, no operation is suspended on a remote call.
C31_LocalWriteBeforeRemote ==
    [][ (last'.op \in {"saveSite", "saveInspection"} /\ ~last'.stored) =>
          \A t \in AllSlots : tasks'[t] = tasks[t]
      ]_vars

\* C32: while the device is offline or the remote is not configured,
\* saveSite and saveInspection suspend on no remote call, raise no error and
\* leave the record stored with synced = false; syncPendingData and
\* performInitialLoad return at once and change no collection and no photo.
C32_OfflineFallsBackSilently ==
    [][ ~(online /\ configured) =>
          /\ last'.op = "saveSite" =>
                /\ \A t \in AllSlots : tasks'[t] = tasks[t]
                /\ last'.done /\ last'.note # "rejected"
                /\ last'.stored => \E i \in 1..Len(sites') : sites'[i] = last'.arg
          /\ last'.op = "saveInspection" =>
                /\ \A t \in AllSlots : tasks'[t] = tasks[t]
                /\ last'.done /\ last'.note # "rejected"
                /\ last'.stored => \E i \in 1..Len(inspections') : inspections'[i] = last'.arg
          /\ last'.op \in {"syncPendingData", "performInitialLoad"} =>
                /\ last'.done
                /\ \A t \in AllSlots : tasks'[t] = tasks[t]
                /\ sites' = sites /\ inspections' = inspections /\ photos' = photos
      ]_vars

\* The steps in which an operation that was suspended on a remote call
\* writes the sites.
SiteResumeSteps ==
    SiteMergeSteps \cup {"saveSiteResume", "syncPendingDataSiteUploaded"}

\* C33: when an operation resumes after a remote call and writes the sites,
\* every site stored by then, whichever operation stored it meanwhile, is
\* still stored with its content afterwards.
C33_NoWriteClobbersAddedRecord ==
    [][ (last'.op \in SiteResumeSteps /\ last'.stored) =>
          \A i \in 1..Len(sites) :
              sites[i].id # DemoSiteId => HasContent(sites', sites[i])
      ]_vars

FinalizationSteps ==
    {"uploadInspectionWithPDFPhoto", "uploadInspectionWithPDFPdf",
     "uploadInspectionWithPDFRow"}

\* C34: the log handed to uploadInspectionWithPDF is not mutated: through
\* every step of the finalization, its last one included, the caller's log
\* has the answers, photoUrl, pdfUrl and synced it was passed with; the
\* promoted answers live in a copy.
C34_PromotionLeavesInputAlone ==
    [][ /\ last'.op \in FinalizationSteps => last'.arg.log = tasks[last'.t].arg.log
        /\ \A t \in AllSlots :
             (tasks[t].op = "uploadInspectionWithPDF"
                /\ tasks'[t].op = "uploadInspectionWithPDF")
               => tasks'[t].arg.log = tasks[t].arg.log
      ]_vars

C34_Witness ==
    /\ last.op = "uploadInspectionWithPDFRow"
    /\ last.stored
    /\ IsLocal(last.arg.log.answers[1])
    /\ IsRemote(last.arg.answers[1])
    /\ "pdfUrl" \notin DOMAIN last.arg.log
    /\ "synced" \in DOMAIN last.arg.log /\ ~last.arg.log.synced
    /\ Persisted("l1").synced = FALSE /\ "pdfUrl" \in DOMAIN Persisted("l1")

\* A finalization runs to its end and stores the log it produced.
RunSucceeds == last'.op = "uploadInspectionWithPDFRow" /\ last'.stored

\* An upload or an upsert of a finalization fails.
RunFails ==
    last'.op \in FinalizationSteps /\ last'.note \in {"kept", "rejected"}

\* The photo of the first answer of log l1 is cached and the persisted
\* answer refers to it locally.
CachedLocalPhoto ==
    /\ HasPhotoKey(photos, "k1")
    /\ Persisted("l1") # None
    /\ IsLocal(Persisted("l1").answers[1])

PhotoIsRemote ==
    /\ Persisted("l1") # None
    /\ IsRemote(Persisted("l1").answers[1])

\* C35: when finalizations keep being attempted and run to their end, and
\* from some point on no upload fails, a photo of the log that is cached
\* and locally referenced eventually becomes a remote reference in the
\* persisted log.
C35_CachedPhotoEventuallyRemote ==
    ([]<><<RunSucceeds>>_vars /\ <>[][~RunFails]_vars)
        => (CachedLocalPhoto ~> PhotoIsRemote)

\* data.pdfUrl, or null when the payload has none.
PayloadPdfUrl(row) == IF "pdfUrl" \in DOMAIN row.data THEN row.data.pdfUrl ELSE Null

RowAgrees(row) == row.pdf_url = PayloadPdfUrl(row)

\* The local log with the id is waiting to be uploaded.
PendingLocally(id) ==
    \E j \in 1..Len(inspections) : inspections[j].id = id /\ ~inspections[j].synced

\* The log is stored with the URL, or with none when the URL is null.
StoredWithPdfUrl(list, id, url) ==
    \E k \in 1..Len(list) :
        /\ list[k].id = id
        /\ IF url = Null THEN "pdfUrl" \notin DOMAIN list[k]
           ELSE "pdfUrl" \in DOMAIN list[k] /\ list[k].pdfUrl = url

\* C36: every inspections row sent to or held by the remote has pdf_url
\* equal to data.pdfUrl, or null when data.pdfUrl is absent; and a log that
\* performInitialLoad downloads is stored with the row's pdf_url when that
\* is present and with data.pdfUrl otherwise.
C36_RowAndPayloadAgreeOnPdfUrl ==
    [][ /\ \A row \in remoteLogs' : RowAgrees(row)
        /\ \A t \in AllSlots :
             (tasks'[t] # Idle /\ tasks'[t].req.kind = "upsertLog")
               => RowAgrees(tasks'[t].req.payload)
        /\ (last'.op = "performInitialLoadLogs" /\ last'.stored) =>
             \A i \in 1..Len(FetchedRows) :
                 ~PendingLocally(FetchedRows[i].id) =>
                     StoredWithPdfUrl(inspections', FetchedRows[i].id,
                                      IF FetchedRows[i].pdf_url # Null
                                      THEN FetchedRows[i].pdf_url
                                      ELSE PayloadPdfUrl(FetchedRows[i]))
      ]_vars

C36_Witness ==
    /\ last.op = "performInitialLoadLogs"
    /\ last.stored
    /\ Persisted("l1") # None
    /\ Persisted("l1").synced
    /\ "pdfUrl" \in DOMAIN Persisted("l1")
    /\ \E row \in remoteLogs :
         /\ row.id = "l1"
         /\ row.pdf_url = Persisted("l1").pdfUrl
         /\ row.data.pdfUrl = row.pdf_url

\* C37: a site that deleteSite removed, and that has not been saved again,
\* is not in the local sites after a reconciliation called after the
\* deletion has merged, whether or not the remote delete was made.
C37_DeletedSiteStaysDeleted ==
    [][ last'.op \in SiteMergeSteps =>
          \A id \in deleted.before[last'.t] :
              \A i \in 1..Len(sites') : sites'[i].id # id
      ]_vars

SiteOperationSteps == {"saveSite", "saveSiteResume", "deleteSite", "deleteSiteResume"}

LogOperationSteps ==
    {"saveInspection", "uploadInspectionToSupabase", "uploadInspectionToSupabaseResume"}

\* C38: saveSite and deleteSite leave the stored inspections and the photo
\* cache as they were; saveInspection and uploadInspectionToSupabase leave
\* the stored sites and the photo cache as they were; getInspections leaves
\* the sites, the inspections and the photo cache as they were.
C38_CollectionsAndCacheIndependent ==
    [][ /\ last'.op \in SiteOperationSteps =>
             inspections' = inspections /\ photos' = photos
        /\ last'.op \in LogOperationSteps =>
             sites' = sites /\ photos' = photos
        /\ last'.op = "getInspections" =>
             sites' = sites /\ inspections' = inspections /\ photos' = photos
      ]_vars

\* A site has just been deleted while a site, an inspection and a photo
\* are stored.
C38_Witness ==
    /\ last.op = "deleteSite"
    /\ last.note = "removed"
    /\ inspections # <<>>
    /\ photos # {}

\* The step in which the finish handler signals onConfirm: at once when the
\* remote is not configured, or when the upload it awaits has returned.
SignalStep ==
    \/ last'.op = "handleFinishAndUpload" /\ last'.note = "local"
    \/ /\ last'.op = "uploadInspectionWithPDFRow"
       /\ last'.t = summary.awaits
       /\ last'.stored

\* The step in which a run of the finish handler fails: no blob, or the
\* upload it awaits has thrown.
FailureStep ==
    \/ last'.op = "handleFinishAndUpload" /\ last'.note = "no blob"
    \/ /\ last'.op \in FinalizationSteps
       /\ last'.t = summary.awaits
       /\ last'.note = "rejected"

\* C39: at most one finalization or PDF download of the screen is in
\* flight: while one runs isProcessing is true, and the finish and download
\* handlers start only when isProcessing is false; a failed run leaves
\* isProcessing false and signals nothing; onConfirm is signalled once, in
\* the step where the remote is found unconfigured or the awaited upload
\* returns, and in no other step.
C39_OneRunPerScreen ==
    [][ /\ (summary'.awaits # 0 \/ summary'.downloading) => summary'.isProcessing
        /\ ~(summary'.awaits # 0 /\ summary'.downloading)
        /\ last'.op \in {"handleFinishAndUpload", "handleDownloadOnly"}
             => ~summary.isProcessing /\ summary.awaits = 0 /\ ~summary.downloading
        /\ FailureStep => ~summary'.isProcessing /\ summary'.confirms = summary.confirms
        /\ summary'.confirms = summary.confirms + (IF SignalStep THEN 1 ELSE 0)
        /\ summary'.confirms <= 1
      ]_vars

====
